---------------------------- MODULE Spec2Model ----------------------------
(***************************************************************************)
(* The USP recognition-engine adapter (CSpxUspRecoEngineAdapter) as a      *)
(* state machine.  Two threads run the adapter: the site thread, which     *)
(* calls SetAdapterMode / SetFormat / ProcessAudio / Term, and the         *)
(* transport's receive thread, which delivers the service events (On...).  *)
(* Every handler is cut into steps at the places where it releases or      *)
(* re-acquires m_stateMutex and at every site callback and transport call  *)
(* it makes with the mutex released, so the two threads interleave exactly *)
(* where the code lets them.                                               *)
(***************************************************************************)
EXTENDS Integers, Sequences, FiniteSets, TLC

VARIABLES
    m_audioState,       \* AudioState
    m_uspState,         \* UspState
    m_handle,           \* TRUE iff m_handle != nullptr (a session is open)
    m_format,           \* NoFormat or a WAVEFORMATEX record
    m_singleShot,       \* SetAdapterMode
    m_recoMode,         \* USP::RecognitionMode chosen by SetUspRecoMode
    m_expectIntentResponse,
    m_servicePreferedBufferSizeSendingNow,
    chunk,              \* m_buffer, m_bytesInBuffer, m_bytesLeftInBuffer (m_ptrIntoBuffer = Len(data))
    m_finalResultMessageToFireLater,
    m_stateMutex,       \* "free", or the thread that holds the lock
    pc,                 \* pc[t]: where thread t is inside its current handler
    loc,                \* loc[t]: the locals of thread t's current handler
    site,               \* the site's property store, listen-for list and intent info
    obs,                \* what the site and the transport have seen (history)
    probe,              \* call record: of the pure function called, or of the handler run
    stimulus            \* the operation or event being handled, when they come one at a time

vars == << m_audioState, m_uspState, m_handle, m_format, m_singleShot, m_recoMode,
           m_expectIntentResponse, m_servicePreferedBufferSizeSendingNow, chunk,
           m_finalResultMessageToFireLater, m_stateMutex, pc, loc, site, obs, probe,
           stimulus >>

-----------------------------------------------------------------------------
(* Bounds of the model *)

\* the longest audio block one ProcessAudio call carries
MaxAudioLen == 1

\* the longest write the stand-alone uploader specification makes
MaxWrite == 3

\* the largest frame size the stand-alone uploader specification tries
MaxFrame == 3

\* the number of bytes the stand-alone uploader specification is fed in total
MaxInput == 6

-----------------------------------------------------------------------------
(* The state pair *)

AudioStates == {"Idle", "Ready", "Sending", "Stopping"}

UspStates == {"Idle", "WaitingForTurnStart", "WaitingForPhrase", "WaitingForIntent",
              "WaitingForIntent2", "WaitingForTurnEnd", "Error", "Terminating", "Zombie"}

\* the numeric order of the UspState enumerators, as IsStateBetweenIncluding compares them
UspOrder(u) ==
    CASE u = "Idle" -> 0
      [] u = "WaitingForTurnStart" -> 1
      [] u = "WaitingForPhrase" -> 2
      [] u = "WaitingForIntent" -> 3
      [] u = "WaitingForIntent2" -> 4
      [] u = "WaitingForTurnEnd" -> 5
      [] u = "Error" -> 6
      [] u = "Terminating" -> 7
      [] u = "Zombie" -> 8

\* the pair as a value
Pair == [a |-> m_audioState, u |-> m_uspState]

\* IsBadState(): Error, Terminating or Zombie
IsBadState(st) == st.u \in {"Error", "Terminating", "Zombie"}

\* IsStateBetweenIncluding(u1, u2)
IsStateBetweenIncluding(st, u1, u2) ==
    UspOrder(u1) <= UspOrder(st.u) /\ UspOrder(st.u) <= UspOrder(u2)

\* a ChangeState that forgets the guard on leaving Error, Terminating and Zombie
ChangeState_NoBadGuard(st, fromAudioState, fromUspState, toAudioState, toUspState) ==
    IF fromAudioState = st.a /\ fromUspState = st.u
    THEN [ok |-> TRUE, st |-> [a |-> toAudioState, u |-> toUspState]]
    ELSE [ok |-> FALSE, st |-> st]

\* a ChangeState that commits the transition even when it reports failure
ChangeState_CommitsOnFailure(st, fromAudioState, fromUspState, toAudioState, toUspState) ==
    IF fromAudioState = st.a /\ fromUspState = st.u /\
       ((fromUspState # "Error" /\ fromUspState # "Zombie" /\ fromUspState # "Terminating") \/
        ((fromUspState = toUspState) \/
         (fromUspState = "Error" /\ toUspState = "Terminating") \/
         (fromUspState = "Terminating" /\ toUspState = "Zombie")))
    THEN [ok |-> TRUE, st |-> [a |-> toAudioState, u |-> toUspState]]
    ELSE [ok |-> FALSE, st |-> [a |-> toAudioState, u |-> st.u]]

\* ChangeState(fromAudioState, fromUspState, toAudioState, toUspState): the primitive.
\* Returns whether the transition was made, and the pair afterwards.
ChangeState(st, fromAudioState, fromUspState, toAudioState, toUspState) ==
    IF fromAudioState = st.a /\
       fromUspState = st.u /\
       ((fromUspState # "Error" /\
         fromUspState # "Zombie" /\
         fromUspState # "Terminating") \/
        ((fromUspState = toUspState) \/
         (fromUspState = "Error" /\ toUspState = "Terminating") \/
         (fromUspState = "Terminating" /\ toUspState = "Zombie")))
    THEN [ok |-> TRUE, st |-> [a |-> toAudioState, u |-> toUspState]]
    ELSE [ok |-> FALSE, st |-> st]

\* ChangeState(toAudioState)
ChangeState_ToAudio(st, toAudioState) == ChangeState(st, st.a, st.u, toAudioState, st.u)

\* ChangeState(toUspState)
ChangeState_ToUsp(st, toUspState) == ChangeState(st, st.a, st.u, st.a, toUspState)

\* ChangeState(toAudioState, toUspState)
ChangeState_ToBoth(st, toAudioState, toUspState) ==
    ChangeState(st, st.a, st.u, toAudioState, toUspState)

\* ChangeState(fromAudioState, toAudioState)
ChangeState_Audio(st, fromAudioState, toAudioState) ==
    ChangeState(st, fromAudioState, st.u, toAudioState, st.u)

\* ChangeState(fromUspState, toUspState)
ChangeState_Usp(st, fromUspState, toUspState) ==
    ChangeState(st, st.a, fromUspState, st.a, toUspState)

-----------------------------------------------------------------------------
(* What the site and the transport see *)

\* a site callback
Cb(name) ==
    [kind |-> "cb", name |-> name, bytes |-> << >>, text |-> "", luis |-> "", via |-> ""]

\* FireAdapterResult_FinalResult / FireAdapterResult_Intermediate with the result's text
\* and LUIS json; via names the function that fired it
CbResult(name, text, luis, via) ==
    [kind |-> "cb", name |-> name, bytes |-> << >>, text |-> text, luis |-> luis, via |-> via]

\* a call on the transport session: SendMessage, WriteAudio, FlushAudio
Tx(name, bytes) ==
    [kind |-> "tx", name |-> name, bytes |-> bytes, text |-> "", luis |-> "", via |-> ""]

\* a point in a handler that the claims refer to and that is neither of the above
Mark(name) ==
    [kind |-> "mark", name |-> name, bytes |-> << >>, text |-> "", luis |-> "", via |-> ""]

\* audio bytes are modelled as numbers from AudioBase up, so that they can be told from
\* the bytes of the RIFF header (0..255)
AudioBase == 2^8

IsAudioByte(b) == b >= AudioBase

-----------------------------------------------------------------------------
(* Session facade and chunking uploader *)

\* const bool m_fUseBufferedImplementation (declared in the class header)
m_fUseBufferedImplementation == TRUE

\* const size_t m_servicePreferedMilliseconds (declared in the class header)
m_servicePreferedMilliseconds == 128

Min(a, b) == IF a < b THEN a ELSE b

\* the guard of UspSendMessage, UspWrite_Actual and UspWrite_Flush
SessionUsable(st, handle) == st.u # "Terminating" /\ st.u # "Zombie" /\ handle

\* m_buffer == nullptr
NullChunk == [alloc |-> FALSE, data |-> <<>>, m_bytesInBuffer |-> 0, m_bytesLeftInBuffer |-> 0]

\* the bytes that lie in the chunk buffer
BytesBuffered(c) == c.m_bytesInBuffer - c.m_bytesLeftInBuffer

\* UspSendMessage(messagePath, buffer)
UspSendMessage(st, handle, messagePath, buffer) ==
    IF SessionUsable(st, handle) THEN << Tx("send_message", buffer) >> ELSE << >>

\* UspWrite_Actual(buffer, byteToWrite)
UspWrite_Actual(st, handle, buffer) ==
    IF SessionUsable(st, handle) THEN << Tx("write_audio", buffer) >> ELSE << >>

\* the for (;;) loop of UspWrite_Buffered.  c is the chunk buffer, buffer the
\* caller's bytes, bytesToWrite what is left of them to copy, evs the transport
\* calls made so far.
RECURSIVE UspWrite_BufferedLoop(_, _, _, _, _, _, _)
UspWrite_BufferedLoop(c, st, handle, buffer, bytesToWrite, flushBuffer, evs) ==
    LET emit == flushBuffer \/ (c.m_bytesInBuffer > 0 /\ c.m_bytesLeftInBuffer = 0)
        bytesToFlush == c.m_bytesInBuffer - c.m_bytesLeftInBuffer
        evs1 == IF emit
                THEN evs \o UspWrite_Actual(st, handle, SubSeq(c.data, 1, bytesToFlush))
                ELSE evs
        c1 == IF emit
              THEN [c EXCEPT !.m_bytesLeftInBuffer = c.m_bytesInBuffer, !.data = << >>]
              ELSE c
        c2 == IF flushBuffer THEN NullChunk ELSE c1
        bytesThisLoop == Min(bytesToWrite, c2.m_bytesLeftInBuffer)
        \* memcpy(m_ptrIntoBuffer, buffer, bytesThisLoop): buffer is not advanced
        c3 == [c2 EXCEPT !.data = @ \o SubSeq(buffer, 1, bytesThisLoop),
                         !.m_bytesLeftInBuffer = @ - bytesThisLoop]
    IN  IF bytesToWrite = 0 \/ (bytesThisLoop = 0 /\ c2.m_bytesInBuffer = 0)
        THEN [chunk |-> c2, evs |-> evs1]
        ELSE UspWrite_BufferedLoop(c3, st, handle, buffer, bytesToWrite - bytesThisLoop,
                                   flushBuffer, evs1)

\* UspWrite_Buffered(buffer, bytesToWrite): allocate the buffer if there is none, then loop
UspWrite_Buffered(c, size, st, handle, buffer) ==
    LET c0 == IF ~c.alloc
              THEN [alloc |-> TRUE, data |-> << >>,
                    m_bytesInBuffer |-> size, m_bytesLeftInBuffer |-> size]
              ELSE c
    IN  UspWrite_BufferedLoop(c0, st, handle, buffer, Len(buffer), Len(buffer) = 0, << >>)

\* UspWrite(buffer, byteToWrite): straight to the session, or through the chunk buffer
UspWrite(c, size, st, handle, buffer) ==
    IF ~m_fUseBufferedImplementation \/ size = 0
    THEN [chunk |-> c, evs |-> UspWrite_Actual(st, handle, buffer)]
    ELSE UspWrite_Buffered(c, size, st, handle, buffer)

\* a UspWrite_Flush that leaves the buffer allocated and never calls FlushAudio
UspWrite_Flush_KeepsBuffer(c, size, st, handle) ==
    IF SessionUsable(st, handle)
    THEN LET r == UspWrite_Buffered(c, size, st, handle, << >>)
         IN  [chunk |-> [r.chunk EXCEPT !.alloc = c.alloc], evs |-> r.evs]
    ELSE [chunk |-> c, evs |-> << >>]

\* UspWrite_Flush()
UspWrite_Flush(c, size, st, handle) ==
    IF SessionUsable(st, handle)
    THEN LET r == UspWrite_Buffered(c, size, st, handle, << >>)
         IN  [chunk |-> r.chunk, evs |-> r.evs \o << Tx("flush_audio", << >>) >>]
    ELSE [chunk |-> c, evs |-> << >>]

\* FormatBufferWriteNumber: a uint32_t, little-endian
FormatBufferWriteNumber(number) ==
    << number % 256, (number \div 256) % 256, (number \div 65536) % 256,
       (number \div 16777216) % 256 >>

\* a uint16_t, little-endian, as it lies in the WAVEFORMATEX in memory
U16(number) == << number % 256, (number \div 256) % 256 >>

\* the bytes of the WAVEFORMATEX at pformat
FormatBytes(f) ==
    U16(f.wFormatTag) \o U16(f.nChannels) \o FormatBufferWriteNumber(f.nSamplesPerSec) \o
    FormatBufferWriteNumber(f.nAvgBytesPerSec) \o U16(f.nBlockAlign) \o
    U16(f.wBitsPerSample) \o U16(f.cbSize)

\* sizeof(WAVEFORMAT)
SizeofWAVEFORMAT == 14

\* the header UspWriteFormat hands to UspWrite: "RIFF" 0 "WAVE" "fmt " size format "data" 0
UspWriteFormat(f) ==
    LET cbFormatChunk == SizeofWAVEFORMAT + f.cbSize
        all == FormatBytes(f) \o [i \in 1..f.cbSize |-> 0]
    IN  << 82, 73, 70, 70 >> \o FormatBufferWriteNumber(0) \o
        << 87, 65, 86, 69 >> \o
        << 102, 109, 116, 32 >> \o FormatBufferWriteNumber(cbFormatChunk) \o
        SubSeq(all, 1, cbFormatChunk) \o
        << 100, 97, 116, 97 >> \o FormatBufferWriteNumber(0)

\* the frame size SendPreAudioMessages computes
PreferedBufferSize(f) ==
    (f.nSamplesPerSec * f.nBlockAlign * m_servicePreferedMilliseconds) \div 1000

-----------------------------------------------------------------------------
(* The site: property store, listen-for list, intent info *)

\* PAL::wcsicmp compares ignoring case: the lower-case form of the values in use
ToLower(s) ==
    CASE s = "CORTANA" -> "cortana"
      [] s = "Cortana" -> "cortana"
      [] s = "INTERACTIVE" -> "interactive"
      [] s = "Interactive" -> "interactive"
      [] s = "CONVERSATION" -> "conversation"
      [] s = "Conversation" -> "conversation"
      [] s = "DICTATION" -> "dictation"
      [] s = "Dictation" -> "dictation"
      [] OTHER -> s

wcsicmp_equal(s1, s2) == ToLower(s1) = ToLower(s2)

\* the named properties of a site that has the property service (available) and sets none
NoProperties ==
    [available |-> TRUE, endpoint |-> "", endpointPath |-> "", reco_mode |-> "", has_reco_language |-> FALSE,
     reco_language |-> "", model_id |-> "", from_language |-> "", to_languages |-> "",
     voice |-> "", subscription_key |-> "", auth_token |-> "", rps_token |-> ""]

\* a site: its properties, GetListenForList(), GetIntentInfo() and the three internal switches
MakeSite(props, listenFor, intent, noDGI, noIntentJson, resetAfterError) ==
    [props |-> props, listenFor |-> listenFor, intent |-> intent, noDGI |-> noDGI,
     noIntentJson |-> noIntentJson, resetAfterError |-> resetAfterError]

NoIntent == [provider |-> "", id |-> "", key |-> ""]

LuisIntent == [provider |-> "LUIS", id |-> "app", key |-> "k1"]

\* the sites the model is run with
Sites ==
    { MakeSite([NoProperties EXCEPT !.subscription_key = "sk"],
               << >>, NoIntent, FALSE, FALSE, FALSE),
      MakeSite([NoProperties EXCEPT !.subscription_key = "sk", !.reco_mode = "INTERACTIVE"],
               << >>, LuisIntent, FALSE, FALSE, TRUE),
      MakeSite([NoProperties EXCEPT !.auth_token = "tok", !.reco_mode = "Conversation"],
               << << "p", "l", "a", "y" >> >>, LuisIntent, FALSE, FALSE, FALSE),
      MakeSite([NoProperties EXCEPT !.rps_token = "rps", !.endpoint = "wss://host",
                                    !.endpointPath = "/conversation/"],
               << << "{", "g", ":", "1", "}" >> >>, NoIntent, FALSE, FALSE, TRUE) }

\* USP::Client client(*this, USP::EndpointType::BingSpeech): nothing else set yet
NewClient ==
    [type |-> "BingSpeech", url |-> "", language |-> << >>, source |-> "", targets |-> "",
     voice |-> "", modelId |-> ""]

\* what SetUspEndpoint leaves when it returns: m_customEndpoint and the client
Selected(customEndpoint, client) ==
    [ok |-> TRUE, hr |-> "SPX_NOERROR", customEndpoint |-> customEndpoint,
     type |-> client.type, client |-> client]

\* the translation endpoint, or the throw when there are no target languages
TranslationEndpoint(props) ==
    IF props.to_languages = ""
    THEN [ok |-> FALSE, hr |-> "SPXERR_INVALID_ARG", customEndpoint |-> FALSE,
          type |-> NewClient.type, client |-> NewClient]
    ELSE Selected(FALSE, [NewClient EXCEPT !.type = "Translation",
                                           !.source = props.from_language,
                                           !.targets = props.to_languages,
                                           !.voice = props.voice,
                                           !.modelId = props.model_id])

\* a SetUspEndpoint that looks at the model id before the translation languages
SetUspEndpoint_ModelIdFirst(props) ==
    IF wcsicmp_equal(props.endpoint, "CORTANA")
    THEN Selected(FALSE, [NewClient EXCEPT !.type = "CDSDK"])
    ELSE IF props.endpoint # ""
    THEN Selected(TRUE, [NewClient EXCEPT !.type = "Url", !.url = props.endpoint])
    ELSE IF props.model_id # ""
    THEN Selected(FALSE, [NewClient EXCEPT !.type = "Cris", !.modelId = props.model_id])
    ELSE IF props.from_language # ""
    THEN TranslationEndpoint(props)
    ELSE IF props.has_reco_language
    THEN Selected(FALSE, [NewClient EXCEPT !.language = << props.reco_language >>])
    ELSE Selected(FALSE, NewClient)

\* SetUspEndpoint: whether it returns (ok) or throws (hr), m_customEndpoint, and the client
\* as the setters leave it
SetUspEndpoint(props) ==
    IF wcsicmp_equal(props.endpoint, "CORTANA")
    THEN Selected(FALSE, [NewClient EXCEPT !.type = "CDSDK"])
    ELSE IF props.endpoint # ""
    THEN Selected(TRUE, [NewClient EXCEPT !.type = "Url", !.url = props.endpoint])
    ELSE IF props.from_language # ""
    THEN TranslationEndpoint(props)
    ELSE IF props.model_id # ""
    THEN Selected(FALSE, [NewClient EXCEPT !.type = "Cris", !.modelId = props.model_id])
    ELSE IF props.has_reco_language
    THEN Selected(FALSE, [NewClient EXCEPT !.language = << props.reco_language >>])
    ELSE Selected(FALSE, NewClient)

\* GetRecoModeFromProperties
GetRecoModeFromProperties(props, recoMode) ==
    IF props.reco_mode = "" THEN [hr |-> "SPXERR_NOT_FOUND", recoMode |-> recoMode]
    ELSE IF wcsicmp_equal(props.reco_mode, "INTERACTIVE")
    THEN [hr |-> "SPX_NOERROR", recoMode |-> "Interactive"]
    ELSE IF wcsicmp_equal(props.reco_mode, "CONVERSATION")
    THEN [hr |-> "SPX_NOERROR", recoMode |-> "Conversation"]
    ELSE IF wcsicmp_equal(props.reco_mode, "DICTATION")
    THEN [hr |-> "SPX_NOERROR", recoMode |-> "Dictation"]
    ELSE [hr |-> "SPXERR_INVALID_ARG", recoMode |-> recoMode]

\* GetRecoModeFromEndpoint: the mode named in the URL's path
GetRecoModeFromEndpoint(props, recoMode) ==
    IF props.endpointPath = "/interactive/" THEN [hr |-> "SPX_NOERROR", recoMode |-> "Interactive"]
    ELSE IF props.endpointPath = "/conversation/"
    THEN [hr |-> "SPX_NOERROR", recoMode |-> "Conversation"]
    ELSE IF props.endpointPath = "/dictation/"
    THEN [hr |-> "SPX_NOERROR", recoMode |-> "Dictation"]
    ELSE [hr |-> "SPXERR_NOT_FOUND", recoMode |-> recoMode]

\* SetUspRecoMode
SetUspRecoMode(props, customEndpoint) ==
    LET r1 == GetRecoModeFromProperties(props, "Interactive")
        r2 == IF r1.hr = "SPXERR_NOT_FOUND" /\ customEndpoint
              THEN GetRecoModeFromEndpoint(props, r1.recoMode)
              ELSE r1
    IN  [ok |-> r1.hr \in {"SPX_NOERROR", "SPXERR_NOT_FOUND"} /\
                r2.hr \in {"SPX_NOERROR", "SPXERR_NOT_FOUND"},
         recoMode |-> r2.recoMode]

\* SetUspAuthentication
SetUspAuthentication(props) ==
    IF props.subscription_key # "" THEN [ok |-> TRUE, auth |-> "SubscriptionKey"]
    ELSE IF props.auth_token # "" THEN [ok |-> TRUE, auth |-> "AuthorizationToken"]
    ELSE IF props.rps_token # "" THEN [ok |-> TRUE, auth |-> "SearchDelegationRPSToken"]
    ELSE [ok |-> FALSE, auth |-> ""]

\* UspInitialize: ok is FALSE when one of the three steps throws; m_handle is then not set
UspInitialize(s, recoMode) ==
    LET e == SetUspEndpoint(s.props)
        m == SetUspRecoMode(s.props, e.customEndpoint)
        a == SetUspAuthentication(s.props)
    IN  IF ~s.props.available THEN [ok |-> FALSE, recoMode |-> recoMode]
        ELSE IF ~e.ok THEN [ok |-> FALSE, recoMode |-> recoMode]
        ELSE IF ~m.ok THEN [ok |-> FALSE, recoMode |-> recoMode]
        ELSE [ok |-> a.ok, recoMode |-> m.recoMode]

\* EnsureUspInit: connect if there is no session
EnsureUspInit(handle, s, recoMode) ==
    IF ~handle
    THEN LET r == UspInitialize(s, recoMode)
         IN  [ok |-> r.ok, handle |-> r.ok, recoMode |-> r.recoMode]
    ELSE [ok |-> TRUE, handle |-> handle, recoMode |-> recoMode]

\* IsInteractiveMode()
IsInteractiveMode(recoMode) == recoMode = "Interactive"

-----------------------------------------------------------------------------
(* Context builder.  A json text is the sequence of the pieces the code appends. *)

RECURSIVE IndexOf(_, _, _)
\* std::string::find(ch) from position i: the first index, or 0 for npos
IndexOf(str, ch, i) ==
    IF i > Len(str) THEN 0 ELSE IF str[i] = ch THEN i ELSE IndexOf(str, ch, i + 1)

\* the test that makes a listen-for entry a reference grammar
IsReferenceGrammar(listenFor) ==
    Len(listenFor) > 3 /\ listenFor[1] = "{" /\ listenFor[Len(listenFor)] = "}" /\
    IndexOf(listenFor, ":", 1) # 0

\* substr(1, length - 2), then the first ':' replaced by '/'
ReferenceOf(listenFor) ==
    LET ref == SubSeq(listenFor, 2, Len(listenFor) - 1)
        at == IndexOf(ref, ":", 1)
    IN  [i \in 1..Len(ref) |-> IF i = at THEN "/" ELSE ref[i]]

RECURSIVE SelectEntries(_, _)
\* the entries of the list that are (want = TRUE) or are not reference grammars, in order
SelectEntries(list, want) ==
    IF list = << >> THEN << >>
    ELSE LET h == Head(list)
             rest == SelectEntries(Tail(list), want)
         IN  IF IsReferenceGrammar(h) = want
             THEN << IF want THEN ReferenceOf(h) ELSE h >> \o rest
             ELSE rest

RECURSIVE JoinItems(_, _, _, _)
\* the loop that appends pre item post for every item, with commas between
JoinItems(items, pre, post, appendComma) ==
    IF items = << >> THEN << >>
    ELSE (IF appendComma THEN << "," >> ELSE << >>) \o << pre >> \o Head(items) \o << post >> \o
         JoinItems(Tail(items), pre, post, TRUE)

\* GetDgiJsonFromListenForList
GetDgiJsonFromListenForList(s) ==
    LET grammars == SelectEntries(s.listenFor, TRUE)
        genericItems == SelectEntries(s.listenFor, FALSE)
        groups == IF Len(genericItems) > 0
                  THEN << "\"Groups\": [", "{\"Type\":\"Generic\",\"Items\":[" >> \o
                       JoinItems(genericItems, "{\"Text\":\"", "\"}", FALSE) \o << "]}", "]" >>
                  ELSE << >>
        refs == IF Len(grammars) > 0
                THEN (IF Len(genericItems) > 0 THEN << "," >> ELSE << >>) \o
                     << "\"ReferenceGrammars\": [" >> \o
                     JoinItems(grammars, "\"", "\"", FALSE) \o << "]" >>
                ELSE << >>
        dgiJson == IF Len(grammars) > 0 \/ Len(genericItems) > 0
                   THEN << "{" >> \o groups \o refs \o << "}" >>
                   ELSE << >>
    IN  IF s.noDGI THEN << >> ELSE dgiJson

\* GetLanguageUnderstandingJsonFromIntentInfo without the no-intent-json switch
GetLanguageUnderstandingJsonFromIntentInfo_IgnoresSwitch(s) ==
    IF s.intent.provider # "" /\ s.intent.id # "" /\ s.intent.key # ""
    THEN << "{", "\"provider\":\"", s.intent.provider, "\",",
            "\"id\":\"", s.intent.id, "\",",
            "\"key\":\"", s.intent.key, "\"", "}" >>
    ELSE << >>

\* GetLanguageUnderstandingJsonFromIntentInfo
GetLanguageUnderstandingJsonFromIntentInfo(s) ==
    LET intentJson == IF s.intent.provider # "" /\ s.intent.id # "" /\ s.intent.key # ""
                      THEN << "{", "\"provider\":\"", s.intent.provider, "\",",
                              "\"id\":\"", s.intent.id, "\",",
                              "\"key\":\"", s.intent.key, "\"", "}" >>
                      ELSE << >>
    IN  IF s.noIntentJson THEN << >> ELSE intentJson

\* GetSpeechContextJson
GetSpeechContextJson(dgiJson, intentJson) ==
    IF dgiJson # << >> \/ intentJson # << >>
    THEN << "{" >> \o
         (IF dgiJson # << >> THEN << "\"dgi\":" >> \o dgiJson ELSE << >>) \o
         (IF intentJson # << >>
          THEN (IF dgiJson # << >> THEN << "," >> ELSE << >>) \o << "\"intent\":" >> \o intentJson
          ELSE << >>) \o
         << "}" >>
    ELSE << >>

\* UspSendSpeechContext: the new m_expectIntentResponse and the message sent, if any
UspSendSpeechContext(s, st, handle) ==
    LET listenForJson == GetDgiJsonFromListenForList(s)
        intentJson == GetLanguageUnderstandingJsonFromIntentInfo(s)
        speechContext == GetSpeechContextJson(listenForJson, intentJson)
    IN  [expectIntentResponse |-> intentJson # << >>,
         evs |-> IF speechContext # << >>
                 THEN UspSendMessage(st, handle, "speech.context", speechContext)
                 ELSE << >>]

-----------------------------------------------------------------------------
(* Messages, formats, threads *)

\* USP::SpeechPhraseMsg(): the empty message
EmptyMsg == [recognitionStatus |-> "", displayText |-> ""]

\* the speech.phrase messages the service sends
PhraseMsgs ==
    { [recognitionStatus |-> "Success", displayText |-> "one"],
      [recognitionStatus |-> "NoMatch", displayText |-> ""] }

\* the payload of a user message with path "response"
LuisJson == "{luis:x}"

\* m_format == nullptr
NoFormat == [wFormatTag |-> 0, nChannels |-> 0, nSamplesPerSec |-> 0, nAvgBytesPerSec |-> 0,
             nBlockAlign |-> 0, wBitsPerSample |-> 0, cbSize |-> 0]

\* the formats SetFormat is called with: PCM, mono, 16 bit, at a sample rate that gives a
\* frame of two bytes
Formats ==
    { [wFormatTag |-> 1, nChannels |-> 1, nSamplesPerSec |-> 8, nAvgBytesPerSec |-> 16,
       nBlockAlign |-> 2, wBitsPerSample |-> 16, cbSize |-> 0] }

\* the audio thread calls SetFormat and ProcessAudio, the control thread SetAdapterMode
\* and Term, the receive thread the On... handlers
Threads == {"audio", "ctl", "recv"}

NoLocals ==
    [zombie |-> FALSE, requestIdle |-> FALSE, prepareReady |-> FALSE,
     adapterTurnStopped |-> FALSE, first |-> FALSE, data |-> << >>,
     message |-> EmptyMsg, luisJson |-> ""]

\* the block of size bytes a ProcessAudio call carries (the adapter never looks at them)
AudioData(size) == [i \in 1..size |-> AudioBase]

-----------------------------------------------------------------------------
(* History: what the site and the transport have seen *)

NoWireBad == [call |-> "", phase |-> "", by |-> ""]

InitObs ==
    [cbLocked |-> FALSE,      \* the last step invoked a site callback holding m_stateMutex
     txLocked |-> FALSE,      \* the last step called the transport holding m_stateMutex
     zombieAct |-> FALSE,     \* the last step's callback or transport call belongs to a
                              \* handler that was entered in Zombie
     wirePhase |-> "closed",  \* closed, ctx (speech.context sent), hdr (header sent),
                              \* aborted (the turn was cut short by an error)
     wireBad |-> NoWireBad,   \* the transport call of the last step that is out of the
                              \* turn's order: what was called, in which phase, by whom
     intentFinals |-> 0,      \* final results fired for the phrase held back for its intent
     stopped |-> FALSE,       \* stopped_turn has been fired and no turn_start was accepted
                              \* since: the last turn the service opened is over
     connected |-> FALSE,     \* a session has been opened at some time
     staleUse |-> FALSE]      \* the last step called the transport through m_handle after
                              \* another thread had reset it

IsHeaderFrame(e) ==
    e.name = "write_audio" /\ Len(e.bytes) > 0 /\
    \A i \in 1..Len(e.bytes) : ~IsAudioByte(e.bytes[i])

IsAudioFrame(e) ==
    e.name = "write_audio" /\ \E i \in 1..Len(e.bytes) : IsAudioByte(e.bytes[i])

\* whether the site's speech.context is non-empty
ContextNonEmpty(s) ==
    GetSpeechContextJson(GetDgiJsonFromListenForList(s),
                         GetLanguageUnderstandingJsonFromIntentInfo(s)) # << >>

Observe1(o, e, t, locked, zombie, s) ==
    LET seen == e.kind \in {"cb", "tx"}
        hdrFrom == IF ContextNonEmpty(s) THEN "ctx" ELSE "closed"
        phase == IF e.name = "send_message" THEN "ctx"
                 ELSE IF IsHeaderFrame(e) THEN "hdr"
                 ELSE IF e.kind = "mark" /\ e.name = "turn_end" THEN "closed"
                 ELSE IF e.kind = "mark" /\ e.name = "turn_abort" THEN "aborted"
                 ELSE o.wirePhase
        \* a turn cut short by an error is not held to the order
        bad == \/ e.name = "send_message" /\ o.wirePhase \notin {"closed", "aborted"}
               \/ IsHeaderFrame(e) /\ o.wirePhase \notin {hdrFrom, "aborted"}
               \/ IsAudioFrame(e) /\ o.wirePhase \notin {"hdr", "aborted"}
        finals == IF e.kind = "mark" /\ e.name = "phrase_held" THEN 0
                  ELSE IF e.name = "final_result" /\ e.via = "later"
                  THEN Min(o.intentFinals + 1, 2)
                  ELSE o.intentFinals
    IN  [cbLocked |-> o.cbLocked \/ (e.kind = "cb" /\ locked),
         txLocked |-> o.txLocked \/ (e.kind = "tx" /\ locked),
         zombieAct |-> o.zombieAct \/ (seen /\ zombie),
         wirePhase |-> phase,
         wireBad |-> IF bad
                     THEN [call |-> IF IsAudioFrame(e) THEN "audio"
                                    ELSE IF IsHeaderFrame(e) THEN "header" ELSE "context",
                           phase |-> o.wirePhase, by |-> t]
                     ELSE o.wireBad,
         intentFinals |-> finals,
         stopped |-> IF e.kind = "cb" /\ e.name = "stopped_turn" THEN TRUE
                     ELSE IF e.kind = "mark" /\ e.name = "turn_start" THEN FALSE
                     ELSE o.stopped,
         connected |-> o.connected \/ (e.kind = "mark" /\ e.name = "connect"),
         staleUse |-> o.staleUse \/ (e.kind = "mark" /\ e.name = "stale_handle")]

RECURSIVE ObserveAll(_, _, _, _, _, _)
ObserveAll(o, evs, t, locked, zombie, s) ==
    IF evs = << >> THEN o
    ELSE ObserveAll(Observe1(o, Head(evs), t, locked, zombie, s), Tail(evs),
                    t, locked, zombie, s)

\* the history after a step that made the calls evs
Observe(o, evs, t, locked, zombie, s) ==
    ObserveAll([o EXCEPT !.cbLocked = FALSE, !.txLocked = FALSE,
                         !.zombieAct = FALSE, !.wireBad = NoWireBad, !.staleUse = FALSE],
               evs, t, locked, zombie, s)

-----------------------------------------------------------------------------
(* Steps *)

\* scenario S1 after construction: a single-shot turn with one hypothesis and one phrase.
\* The stimuli are named after the operation or event and the value of its argument that
\* the adapter tells apart
S1Script ==
    << "set_mode_true", "set_format", "process_audio", "turn_start", "speech_start_detected",
       "speech_hypothesis", "speech_phrase_Success", "turn_end" >>

\* a handler is entered for the stimulus stim. When the stimuli come one at a time
\* (stimulus.oneAtATime), no other handler is running, and the stimulus is remembered
\* together with how far the stimuli so far have followed the script
Issued(stim) ==
    /\ stimulus.oneAtATime => \A u \in DOMAIN pc : pc[u] = "idle"
    /\ stimulus' =
           IF ~stimulus.oneAtATime THEN stimulus
           ELSE LET follows == /\ stimulus.onScript >= 0
                              /\ stimulus.onScript < Len(S1Script)
                              /\ stim = S1Script[stimulus.onScript + 1]
                IN  [oneAtATime |-> TRUE, name |-> stim,
                     onScript |-> IF follows THEN stimulus.onScript + 1 ELSE -1]

\* the site callbacks among evs: name, text and LUIS payload
CallbacksOf(evs) ==
    LET cbs == SelectSeq(evs, LAMBDA e : e.kind = "cb")
    IN  [i \in 1..Len(cbs) |-> [name |-> cbs[i].name, text |-> cbs[i].text,
                                luis |-> cbs[i].luis]]

\* the site callbacks and transport calls among evs: kind, name and number of bytes
CallsOf(evs) ==
    LET calls == SelectSeq(evs, LAMBDA e : e.kind \in {"cb", "tx"})
    IN  [i \in 1..Len(calls) |-> [kind |-> calls[i].kind, name |-> calls[i].name,
                                  len |-> Len(calls[i].bytes)]]

\* whether one of the steps evs is an exception leaving the handler
Thrown(evs) == \E i \in 1..Len(evs) : evs[i].kind = "mark" /\ evs[i].name = "throw"

\* the final results fired in the turn that is open, counted up to 2: a turn is opened by
\* an accepted turn_start and closed by stopped_turn or by the reset after an error
TurnFinals(n, evs) ==
    IF \E i \in 1..Len(evs) :
           \/ evs[i].kind = "mark" /\ evs[i].name \in {"turn_start", "turn_abort"}
           \/ evs[i].kind = "cb" /\ evs[i].name = "stopped_turn"
    THEN 0
    ELSE Min(2, n + Len(SelectSeq(evs, LAMBDA e : e.kind = "cb" /\ e.name = "final_result")))

\* the requests for audio idle fired in the turn that is open, counted up to 2: here a
\* turn is opened by the ProcessAudio that fires starting_turn
TurnIdles(n, evs) ==
    IF \E i \in 1..Len(evs) : evs[i].kind = "cb" /\ evs[i].name = "starting_turn"
    THEN 0
    ELSE Min(2, n + Len(SelectSeq(evs, LAMBDA e : e.kind = "cb" /\
                                                  e.name = "requesting_audio_idle")))

\* the record of a one-at-a-time run after a step of thread t that makes the calls evs:
\* the members when the handler was entered, the callbacks the handler has made (fired),
\* its callbacks and transport calls in order (calls), whether it has thrown to its caller
\* (threw), and the callbacks made since construction while the stimuli follow the script
Record(t, evs) ==
    IF ~stimulus.oneAtATime THEN probe
    ELSE [probe EXCEPT
            !.pre = IF pc[t] = "idle"
                    THEN [a |-> m_audioState, u |-> m_uspState,
                          later |-> m_finalResultMessageToFireLater,
                          expect |-> m_expectIntentResponse, recoMode |-> m_recoMode,
                          singleShot |-> m_singleShot, finals |-> obs.intentFinals,
                          format |-> m_format, handle |-> m_handle,
                          size |-> m_servicePreferedBufferSizeSendingNow,
                          buffered |-> BytesBuffered(chunk)]
                    ELSE @,
            !.fired = IF pc[t] = "idle" THEN CallbacksOf(evs) ELSE @ \o CallbacksOf(evs),
            !.calls = IF pc[t] = "idle" THEN CallsOf(evs) ELSE @ \o CallsOf(evs),
            !.threw = (pc[t] # "idle" /\ @) \/ Thrown(evs),
            !.turnFinals = TurnFinals(@, evs),
            !.turnIdles = TurnIdles(@, evs),
            !.log = IF stimulus'.onScript >= 0 THEN @ \o CallbacksOf(evs) ELSE << >>]

\* the adapter's members as one value
Cur ==
    [a |-> m_audioState, u |-> m_uspState, handle |-> m_handle, format |-> m_format,
     singleShot |-> m_singleShot, recoMode |-> m_recoMode, expect |-> m_expectIntentResponse,
     size |-> m_servicePreferedBufferSizeSendingNow, chunk |-> chunk,
     later |-> m_finalResultMessageToFireLater, mutex |-> m_stateMutex]

WithSt(n, st) == [n EXCEPT !.a = st.a, !.u = st.u]

\* thread t takes a step that leaves the members as n, continues at nextPc with the locals
\* nextLoc, and makes the callbacks and transport calls evs
Commit(t, n, nextPc, nextLoc, evs) ==
    /\ m_audioState' = n.a
    /\ m_uspState' = n.u
    /\ m_handle' = n.handle
    /\ m_format' = n.format
    /\ m_singleShot' = n.singleShot
    /\ m_recoMode' = n.recoMode
    /\ m_expectIntentResponse' = n.expect
    /\ m_servicePreferedBufferSizeSendingNow' = n.size
    /\ chunk' = n.chunk
    /\ m_finalResultMessageToFireLater' = n.later
    /\ m_stateMutex' = n.mutex
    /\ pc' = [pc EXCEPT ![t] = nextPc]
    /\ loc' = [loc EXCEPT ![t] = nextLoc]
    /\ obs' = Observe(obs, evs, t, m_stateMutex = t,
                      IF pc[t] = "idle" THEN m_uspState = "Zombie" ELSE loc[t].zombie, site)
    /\ probe' = Record(t, evs)
    /\ UNCHANGED site

\* the handler returns; a lock it still holds is released by the lock object's destructor
Return(t, n, evs) ==
    Commit(t, [n EXCEPT !.mutex = IF @ = t THEN "free" ELSE @], "idle", NoLocals, evs)

\* no thread has crashed the process
Alive == \A t \in Threads : pc[t] # "crashed"

\* thread t enters a handler that starts by taking m_stateMutex
Begin(t) == Alive /\ pc[t] = "idle" /\ m_stateMutex = "free"

\* the receive thread delivers an event: there is or was a session to deliver it
Deliver == Begin("recv") /\ obs.connected

\* thread t continues the handler it is in
At(t, label) == Alive /\ pc[t] = label /\ UNCHANGED stimulus

\* the locals of a handler that is entered now
Enter == [NoLocals EXCEPT !.zombie = (m_uspState = "Zombie")]

\* PrepareAudioReadyState: reset the frame size and make sure there is a session.
\* ok is FALSE when UspInitialize throws.
\* PrepareAudioReadyState, given what EnsureUspInit did
\* a PrepareAudioReadyState that keeps the frame size of the turn before
PrepareAudioReadyState_Done_KeepsSize(n, r) ==
    [ok |-> r.ok,
     n |-> [n EXCEPT !.handle = r.handle, !.recoMode = r.recoMode],
     evs |-> IF ~r.ok THEN << Mark("throw") >>
             ELSE IF r.handle /\ ~n.handle THEN << Mark("connect") >> ELSE << >>]

PrepareAudioReadyState_Done(n, r) ==
    [ok |-> r.ok,
     n |-> [n EXCEPT !.size = 0, !.handle = r.handle, !.recoMode = r.recoMode],
     evs |-> IF ~r.ok THEN << Mark("throw") >>
             ELSE IF r.handle /\ ~n.handle THEN << Mark("connect") >> ELSE << >>]

PrepareAudioReadyState(n, s) ==
    PrepareAudioReadyState_Done(n, EnsureUspInit(n.handle, s, n.recoMode))

(* Term *)

Term_Lock ==
    /\ Begin("ctl")
    /\ Issued("term")
    /\ LET r == ChangeState_ToUsp(Pair, "Terminating")
       IN  IF r.ok
           THEN Commit("ctl", WithSt(Cur, r.st), "Term_reset", Enter, << >>)
           ELSE Return("ctl", Cur, << >>)

Term_Reset ==
    /\ At("ctl", "Term_reset")
    /\ Commit("ctl", [Cur EXCEPT !.handle = FALSE], "Term_zombie", loc["ctl"], << >>)

Term_Zombie ==
    /\ At("ctl", "Term_zombie")
    /\ m_stateMutex = "free"
    /\ Return("ctl", WithSt(Cur, ChangeState_ToUsp(Pair, "Zombie").st), << >>)

(* SetAdapterMode: called outside any turn *)

SetAdapterMode(singleShot) ==
    /\ Alive /\ pc["ctl"] = "idle"
    /\ Issued(IF singleShot THEN "set_mode_true" ELSE "set_mode_false")
    /\ m_audioState = "Idle" /\ m_uspState = "Idle"
    /\ singleShot # m_singleShot
    /\ Return("ctl", [Cur EXCEPT !.singleShot = singleShot], << >>)

(* SetFormat *)

SetFormat_Lock(pformat) ==
    /\ Begin("audio")
    /\ Issued(IF pformat # NoFormat THEN "set_format" ELSE "set_format_null")
    /\ LET st == Pair
           toReady == ChangeState_Audio(st, "Idle", "Ready")
           toIdle == ChangeState_ToAudio(st, "Idle")
       IN  IF IsBadState(st) /\ st.u # "Terminating"
           THEN Return("audio", Cur, << >>)
           ELSE IF pformat # NoFormat /\ st.u = "Idle" /\ toReady.ok
           THEN \* PrepareFirstAudioReadyState, with the lock held
                LET r == PrepareAudioReadyState(
                             [WithSt(Cur, toReady.st) EXCEPT !.format = pformat], site)
                IN  Return("audio", r.n, r.evs)
           ELSE IF pformat = NoFormat /\ (toIdle.ok \/ st.u = "Terminating")
           THEN Commit("audio",
                       [WithSt(Cur, IF toIdle.ok THEN toIdle.st ELSE st) EXCEPT !.mutex = "free"],
                       "SetFormat_stop", Enter, << >>)
           ELSE Return("audio", Cur, << >>)

SetFormat_Stop ==
    /\ At("audio", "SetFormat_stop")
    /\ Commit("audio", Cur, "SetFormat_reset", loc["audio"],
              << Cb("completed_set_format_stop") >>)

\* a SetFormat(nullptr) that keeps the stored format
SetFormat_Reset_KeepsFormat ==
    /\ At("audio", "SetFormat_reset")
    /\ Return("audio", Cur, << >>)

SetFormat_Reset ==
    /\ At("audio", "SetFormat_reset")
    /\ Return("audio", [Cur EXCEPT !.format = NoFormat], << >>)

(* ProcessAudio *)

ProcessAudio_Lock(size) ==
    /\ Begin("audio")
    /\ Issued(IF size > 0 THEN "process_audio" ELSE "process_audio_0")
    /\ LET st == Pair
           start == ChangeState(st, "Ready", "Idle", "Sending", "WaitingForTurnStart")
       IN  IF IsBadState(st)
           THEN Return("audio", Cur, << >>)
           ELSE IF size > 0 /\ start.ok
           THEN Commit("audio", WithSt(Cur, start.st), "PA_context",
                       [Enter EXCEPT !.first = TRUE, !.data = AudioData(size)], << >>)
           ELSE IF size > 0 /\ st.a = "Sending"
           THEN Commit("audio", Cur, "PA_write", [Enter EXCEPT !.data = AudioData(size)], << >>)
           ELSE IF size = 0 /\ st.a = "Sending"
           THEN Commit("audio", Cur, "PA_flush", Enter, << >>)
           ELSE Return("audio", Cur, << >>)

\* SendPreAudioMessages: UspSendSpeechContext up to the test in UspSendMessage that the
\* session is usable; when it is, the call of SendMessage is the next step.  Without the
\* property service the read of the no-dgi switch is a null dereference.
ProcessAudio_Context ==
    /\ At("audio", "PA_context")
    /\ IF ~site.props.available
       THEN Commit("audio", Cur, "crashed", NoLocals, << >>)
       ELSE LET r == UspSendSpeechContext(site, Pair, m_handle)
            IN  Commit("audio", [Cur EXCEPT !.expect = r.expectIntentResponse],
                       IF r.evs # << >> THEN "PA_context_send" ELSE "PA_format",
                       loc["audio"], << >>)

\* UspSendMessage: m_handle->SendMessage(messagePath, buffer, size), after the test.  The
\* lock is not held: when another thread has reset m_handle since the test, the call goes
\* through a null or destroyed session, which crashes or sends through what is left of it.
ProcessAudio_ContextSend ==
    /\ At("audio", "PA_context_send")
    /\ LET speechContext == GetSpeechContextJson(GetDgiJsonFromListenForList(site),
                                                 GetLanguageUnderstandingJsonFromIntentInfo(site))
           send == << Tx("send_message", speechContext) >>
       IN  IF m_handle
           THEN Commit("audio", Cur, "PA_format", loc["audio"], send)
           ELSE \/ Commit("audio", Cur, "crashed", NoLocals, << Mark("stale_handle") >>)
                \/ Commit("audio", Cur, "PA_format", loc["audio"],
                          << Mark("stale_handle") >> \o send)

\* SendPreAudioMessages: UspWriteFormat(m_format.get()) and the frame size.
\* With m_format == nullptr the read of the format is a null dereference.
ProcessAudio_Format ==
    /\ At("audio", "PA_format")
    /\ IF m_format = NoFormat
       THEN Commit("audio", Cur, "crashed", NoLocals, << >>)
       ELSE LET r == UspWrite(chunk, m_servicePreferedBufferSizeSendingNow, Pair, m_handle,
                              UspWriteFormat(m_format))
            IN  Commit("audio",
                       [Cur EXCEPT !.chunk = r.chunk, !.size = PreferedBufferSize(m_format)],
                       "PA_write", loc["audio"], r.evs)

\* a ProcessAudio that does not hand the data to the uploader
ProcessAudio_Write_Drops ==
    /\ At("audio", "PA_write")
    /\ IF loc["audio"].first
       THEN Commit("audio", Cur, "PA_starting", loc["audio"], << >>)
       ELSE Return("audio", Cur, << >>)

ProcessAudio_Write ==
    /\ At("audio", "PA_write")
    /\ LET r == UspWrite(chunk, m_servicePreferedBufferSizeSendingNow, Pair, m_handle,
                         loc["audio"].data)
       IN  IF loc["audio"].first
           THEN Commit("audio", [Cur EXCEPT !.chunk = r.chunk], "PA_starting",
                       loc["audio"], r.evs)
           ELSE Return("audio", [Cur EXCEPT !.chunk = r.chunk], r.evs)

ProcessAudio_StartingTurn ==
    /\ At("audio", "PA_starting")
    /\ Return("audio", Cur, << Cb("starting_turn") >>)

ProcessAudio_Flush ==
    /\ At("audio", "PA_flush")
    /\ LET r == UspWrite_Flush(chunk, m_servicePreferedBufferSizeSendingNow, Pair, m_handle)
       IN  Return("audio", [Cur EXCEPT !.chunk = r.chunk], r.evs)

(* Service events, on the receive thread *)

\* FireFinalResultNow(message, luisJson), called from fn
FireFinalResultNow(message, luisJson, fn) ==
    << CbResult("final_result", message.displayText, luisJson, fn) >>

\* a FireFinalResultLater_WaitingForIntentComplete that leaves the phrase in the slot
FireFinalResultLater_WaitingForIntentComplete_KeepsSlot(n, luisJson) ==
    [n |-> n, evs |-> FireFinalResultNow(n.later, luisJson, "later")]

\* FireFinalResultLater_WaitingForIntentComplete(luisJson): fire the held phrase, empty the slot
FireFinalResultLater_WaitingForIntentComplete(n, luisJson) ==
    [n |-> [n EXCEPT !.later = EmptyMsg],
     evs |-> FireFinalResultNow(n.later, luisJson, "later")]

OnSpeechStartDetected_Lock ==
    /\ Deliver
    /\ Issued("speech_start_detected")
    /\ IF ~IsBadState(Pair) /\ m_uspState = "WaitingForPhrase"
       THEN Commit("recv", Cur, "SSD_fire", Enter, << >>)
       ELSE Return("recv", Cur, << >>)

OnSpeechStartDetected_Fire ==
    /\ At("recv", "SSD_fire")
    /\ Return("recv", Cur, << Cb("detected_speech_start") >>)

\* the locked part: the transition is tried before the bad-state test; only the accepting
\* branch releases the lock
OnSpeechEndDetected_Lock ==
    /\ Deliver
    /\ Issued("speech_end_detected")
    /\ LET r == IF m_singleShot THEN ChangeState_Audio(Pair, "Sending", "Stopping")
                ELSE [ok |-> FALSE, st |-> Pair]
           st == r.st
           l == [Enter EXCEPT !.requestIdle = r.ok]
       IN  IF IsBadState(st)
           THEN Commit("recv", [WithSt(Cur, st) EXCEPT !.mutex = "recv"], "SED_flush", l, << >>)
           ELSE IF IsStateBetweenIncluding(st, "WaitingForPhrase", "WaitingForTurnEnd") /\
                   st.a \in {"Idle", "Sending", "Stopping"}
           THEN Commit("recv", WithSt(Cur, st), "SED_fire", l, << >>)
           ELSE Commit("recv", [WithSt(Cur, st) EXCEPT !.mutex = "recv"], "SED_flush", l, << >>)

OnSpeechEndDetected_Fire ==
    /\ At("recv", "SED_fire")
    /\ Commit("recv", Cur, "SED_flush", loc["recv"], << Cb("detected_speech_end") >>)

\* an OnSpeechEndDetected that does not flush
OnSpeechEndDetected_Flush_Skips ==
    /\ At("recv", "SED_flush")
    /\ IF loc["recv"].requestIdle /\ ~IsBadState(Pair)
       THEN Commit("recv", Cur, "SED_idle", loc["recv"], << >>)
       ELSE Return("recv", Cur, << >>)

OnSpeechEndDetected_Flush ==
    /\ At("recv", "SED_flush")
    /\ LET r == UspWrite_Flush(chunk, m_servicePreferedBufferSizeSendingNow, Pair, m_handle)
           n == [Cur EXCEPT !.chunk = r.chunk]
       IN  IF loc["recv"].requestIdle /\ ~IsBadState(Pair)
           THEN Commit("recv", n, "SED_idle", loc["recv"], r.evs)
           ELSE Return("recv", n, r.evs)

OnSpeechEndDetected_RequestIdle ==
    /\ At("recv", "SED_idle")
    /\ Return("recv", Cur, << Cb("requesting_audio_idle") >>)

OnSpeechHypothesis_Lock ==
    /\ Deliver
    /\ Issued("speech_hypothesis")
    /\ IF ~IsBadState(Pair) /\ m_uspState = "WaitingForPhrase"
       THEN Commit("recv", Cur, "SH_fire", Enter, << >>)
       ELSE Return("recv", Cur, << >>)

OnSpeechHypothesis_Fire ==
    /\ At("recv", "SH_fire")
    /\ Return("recv", Cur, << CbResult("intermediate_result", "", "", "hypothesis") >>)

\* speech.fragment is sent in the continuous modes only
OnSpeechFragment_Lock ==
    /\ Deliver
    /\ Issued("speech_fragment")
    /\ ~IsInteractiveMode(m_recoMode)
    /\ LET r == ChangeState_Usp(Pair, "WaitingForIntent", "WaitingForIntent2")
       IN  IF IsBadState(Pair)
           THEN Return("recv", Cur, << >>)
           ELSE IF r.ok
           THEN Commit("recv", WithSt(Cur, r.st), "FR_complete", Enter, << >>)
           ELSE IF m_uspState = "WaitingForPhrase"
           THEN Commit("recv", Cur, "FR_fire", Enter, << >>)
           ELSE Return("recv", Cur, << >>)

OnSpeechFragment_Complete ==
    /\ At("recv", "FR_complete")
    /\ LET r == FireFinalResultLater_WaitingForIntentComplete(Cur, "")
       IN  Commit("recv", r.n, "FR_relock", loc["recv"], r.evs)

OnSpeechFragment_Relock ==
    /\ At("recv", "FR_relock")
    /\ m_stateMutex = "free"
    /\ Commit("recv",
              WithSt(Cur, ChangeState_Usp(Pair, "WaitingForIntent2", "WaitingForPhrase").st),
              "FR_fire", loc["recv"], << >>)

OnSpeechFragment_Fire ==
    /\ At("recv", "FR_fire")
    /\ Return("recv", Cur, << CbResult("intermediate_result", "", "", "fragment") >>)

OnSpeechPhrase_Lock(message) ==
    /\ Deliver
    /\ Issued(IF message.recognitionStatus = "Success" THEN "speech_phrase_Success"
              ELSE "speech_phrase_NoMatch")
    /\ LET st == Pair
           hold == ChangeState_Usp(st, "WaitingForPhrase", "WaitingForIntent")
           now == IF IsInteractiveMode(m_recoMode)
                  THEN ChangeState_Usp(st, "WaitingForPhrase", "WaitingForTurnEnd")
                  ELSE ChangeState_Usp(st, "WaitingForPhrase", "WaitingForPhrase")
           l == [Enter EXCEPT !.message = message]
       IN  IF IsBadState(st)
           THEN Return("recv", Cur, << >>)
           ELSE IF m_expectIntentResponse /\ message.recognitionStatus = "Success" /\ hold.ok
           THEN Commit("recv", WithSt(Cur, hold.st), "SP_later", l, << Mark("phrase_held") >>)
           ELSE IF now.ok
           THEN Commit("recv", WithSt(Cur, now.st), "SP_now", l, << >>)
           ELSE Return("recv", Cur, << >>)

\* an OnSpeechPhrase that fires the phrase it holds back
OnSpeechPhrase_Later_FiresToo ==
    /\ At("recv", "SP_later")
    /\ Return("recv", [Cur EXCEPT !.later = loc["recv"].message],
              FireFinalResultNow(loc["recv"].message, "", "now"))

\* FireFinalResultLater(message)
OnSpeechPhrase_Later ==
    /\ At("recv", "SP_later")
    /\ Return("recv", [Cur EXCEPT !.later = loc["recv"].message], << >>)

\* an OnSpeechPhrase that fires the phrase twice
OnSpeechPhrase_Now_Twice ==
    /\ At("recv", "SP_now")
    /\ Return("recv", Cur, FireFinalResultNow(loc["recv"].message, "", "now")
                              \o FireFinalResultNow(loc["recv"].message, "", "now"))

OnSpeechPhrase_Now ==
    /\ At("recv", "SP_now")
    /\ Return("recv", Cur, FireFinalResultNow(loc["recv"].message, "", "now"))

OnTranslationHypothesis_Lock ==
    /\ Deliver
    /\ Issued("translation_hypothesis")
    /\ IF ~IsBadState(Pair) /\ m_uspState = "WaitingForPhrase"
       THEN Commit("recv", Cur, "TH_fire", Enter, << >>)
       ELSE Return("recv", Cur, << >>)

OnTranslationHypothesis_Fire ==
    /\ At("recv", "TH_fire")
    /\ Return("recv", Cur, << CbResult("intermediate_result", "", "", "translation") >>)

OnTranslationPhrase_Lock ==
    /\ Deliver
    /\ Issued("translation_phrase")
    /\ LET now == IF IsInteractiveMode(m_recoMode)
                  THEN ChangeState_Usp(Pair, "WaitingForPhrase", "WaitingForTurnEnd")
                  ELSE ChangeState_Usp(Pair, "WaitingForPhrase", "WaitingForPhrase")
       IN  IF ~IsBadState(Pair) /\ now.ok
           THEN Commit("recv", WithSt(Cur, now.st), "TP_fire", Enter, << >>)
           ELSE Return("recv", Cur, << >>)

OnTranslationPhrase_Fire ==
    /\ At("recv", "TP_fire")
    /\ Return("recv", Cur, << CbResult("final_result", "", "", "translation") >>)

\* OnTranslationSynthesis and OnTranslationSynthesisEnd: no lock, no look at the state
OnTranslationSynthesis ==
    /\ Alive /\ pc["recv"] = "idle" /\ obs.connected
    /\ Issued("translation_synthesis")
    /\ Return("recv", Cur, << Cb("translation_synthesis") >>)

OnTurnStart_Lock ==
    /\ Deliver
    /\ Issued("turn_start")
    /\ LET r == ChangeState_Usp(Pair, "WaitingForTurnStart", "WaitingForPhrase")
       IN  IF ~IsBadState(Pair) /\ r.ok
           THEN Commit("recv", WithSt(Cur, r.st), "TS_fire", Enter, << Mark("turn_start") >>)
           ELSE Return("recv", Cur, << >>)

\* an OnTurnStart that does not tell the site
OnTurnStart_Fire_Silent ==
    /\ At("recv", "TS_fire")
    /\ Return("recv", Cur, << >>)

OnTurnStart_Fire ==
    /\ At("recv", "TS_fire")
    /\ Return("recv", Cur, << Cb("started_turn") >>)

\* the end of OnTurnEnd's locked part: PrepareAudioReadyState if asked for, the unlock,
\* and where the handler goes on.  When UspInitialize throws the handler is left.
\* writeLock.unlock() and what follows it, the members being n1
OnTurnEnd_Unlock(prep, n1, l, evs) ==
    IF ~prep.ok THEN Return("recv", n1, evs)
    ELSE IF l.adapterTurnStopped THEN Commit("recv", n1, "TE_stopped", l, evs \o prep.evs)
    ELSE IF l.requestIdle THEN Commit("recv", n1, "TE_flush", l, evs \o prep.evs)
    ELSE Return("recv", n1, evs \o prep.evs)

\* the handler after PrepareAudioReadyState has or has not been called
OnTurnEnd_Prepared(prep, l, evs) ==
    OnTurnEnd_Unlock(prep, [prep.n EXCEPT !.mutex = "free"], l, evs)

OnTurnEnd_Tail(n, l, evs) ==
    OnTurnEnd_Prepared(IF l.prepareReady /\ ~IsBadState([a |-> n.a, u |-> n.u])
                       THEN PrepareAudioReadyState(n, site)
                       ELSE [ok |-> TRUE, n |-> n, evs |-> << >>],
                       l, evs)

\* the if-chain of OnTurnEnd: st is the pair and l the locals after the two ChangeState
\* calls on audio_state, done and late the results of the ChangeState calls of the chain
OnTurnEnd_Chain(st, l, done, late) ==
    IF IsBadState(st)
    THEN OnTurnEnd_Tail(WithSt(Cur, st), l, << >>)
    ELSE IF done.ok
    THEN OnTurnEnd_Tail(WithSt(Cur, done.st), [l EXCEPT !.adapterTurnStopped = TRUE],
                        << Mark("turn_end") >>)
    ELSE IF late.ok
    THEN Commit("recv", WithSt(Cur, late.st), "TE_complete",
                [l EXCEPT !.adapterTurnStopped = TRUE], << Mark("turn_end") >>)
    ELSE OnTurnEnd_Tail(WithSt(Cur, st), l, << >>)

\* an OnTurnEnd that asks for audio idle in single-shot mode whatever audio_state was
OnTurnEnd_Audio_AlwaysIdle(r1, r2) ==
    OnTurnEnd_Chain(r2.st, [Enter EXCEPT !.prepareReady = r1.ok, !.requestIdle = m_singleShot],
                    IF IsInteractiveMode(m_recoMode)
                    THEN ChangeState_Usp(r2.st, "WaitingForTurnEnd", "Idle")
                    ELSE ChangeState_Usp(r2.st, "WaitingForPhrase", "Idle"),
                    ChangeState_Usp(r2.st, "WaitingForIntent", "WaitingForIntent2"))

\* prepareReady and requestIdle: r1 and r2 are the results of the two ChangeState calls
OnTurnEnd_Audio(r1, r2) ==
    OnTurnEnd_Chain(r2.st, [Enter EXCEPT !.prepareReady = r1.ok, !.requestIdle = r2.ok],
                    IF IsInteractiveMode(m_recoMode)
                    THEN ChangeState_Usp(r2.st, "WaitingForTurnEnd", "Idle")
                    ELSE ChangeState_Usp(r2.st, "WaitingForPhrase", "Idle"),
                    ChangeState_Usp(r2.st, "WaitingForIntent", "WaitingForIntent2"))

OnTurnEnd_Lock ==
    /\ Deliver
    /\ Issued("turn_end")
    /\ LET r1 == IF ~m_singleShot THEN ChangeState_Audio(Pair, "Sending", "Ready")
                 ELSE [ok |-> FALSE, st |-> Pair]
       IN  OnTurnEnd_Audio(r1, IF m_singleShot
                               THEN ChangeState_Audio(r1.st, "Sending", "Stopping")
                               ELSE [ok |-> FALSE, st |-> r1.st])

OnTurnEnd_Complete ==
    /\ At("recv", "TE_complete")
    /\ LET r == FireFinalResultLater_WaitingForIntentComplete(Cur, "")
       IN  Commit("recv", r.n, "TE_relock", loc["recv"], r.evs)

\* an OnTurnEnd whose last transition goes back to WaitingForPhrase instead of Idle
OnTurnEnd_Relock_KeepsTurn ==
    /\ At("recv", "TE_relock")
    /\ m_stateMutex = "free"
    /\ OnTurnEnd_Tail(WithSt(Cur, ChangeState_Usp(Pair, "WaitingForIntent2",
                                                  "WaitingForPhrase").st),
                      loc["recv"], << >>)

OnTurnEnd_Relock ==
    /\ At("recv", "TE_relock")
    /\ m_stateMutex = "free"
    /\ OnTurnEnd_Tail(WithSt(Cur, ChangeState_Usp(Pair, "WaitingForIntent2", "Idle").st),
                      loc["recv"], << >>)

\* an OnTurnEnd that ends the turn without telling the site
OnTurnEnd_Stopped_Silent ==
    /\ At("recv", "TE_stopped")
    /\ IF loc["recv"].requestIdle
       THEN Commit("recv", Cur, "TE_flush", loc["recv"], << >>)
       ELSE Return("recv", Cur, << >>)

OnTurnEnd_Stopped ==
    /\ At("recv", "TE_stopped")
    /\ IF loc["recv"].requestIdle
       THEN Commit("recv", Cur, "TE_flush", loc["recv"], << Cb("stopped_turn") >>)
       ELSE Return("recv", Cur, << Cb("stopped_turn") >>)

OnTurnEnd_Flush ==
    /\ At("recv", "TE_flush")
    /\ LET r == UspWrite_Flush(chunk, m_servicePreferedBufferSizeSendingNow, Pair, m_handle)
       IN  Commit("recv", [Cur EXCEPT !.chunk = r.chunk], "TE_idle", loc["recv"], r.evs)

OnTurnEnd_RequestIdle ==
    /\ At("recv", "TE_idle")
    /\ Return("recv", Cur, << Cb("requesting_audio_idle") >>)

\* ShouldResetAfterError()
ShouldResetAfterError(s, format) == s.resetAfterError /\ format # NoFormat

OnError_Lock ==
    /\ Deliver
    /\ Issued("error")
    /\ LET reset == ChangeState_ToBoth(Pair, "Ready", "Idle")
           err == ChangeState_ToUsp(Pair, "Error")
       IN  IF IsBadState(Pair)
           THEN Return("recv", Cur, << >>)
           ELSE IF ShouldResetAfterError(site, m_format) /\ reset.ok
           THEN Commit("recv", WithSt(Cur, reset.st), "ER_fire_reset", Enter,
                       << Mark("turn_abort") >>)
           ELSE IF err.ok
           THEN Commit("recv", WithSt(Cur, err.st), "ER_fire", Enter, << >>)
           ELSE Return("recv", Cur, << >>)

OnError_FireThenReset ==
    /\ At("recv", "ER_fire_reset")
    /\ Commit("recv", Cur, "ER_reset", loc["recv"], << Cb("error") >>)

\* ResetAfterError: m_handle.reset()
OnError_Reset ==
    /\ At("recv", "ER_reset")
    /\ Commit("recv", [Cur EXCEPT !.handle = FALSE], "ER_prepare", loc["recv"], << >>)

\* ResetAfterError: PrepareAudioReadyState()
OnError_Prepare ==
    /\ At("recv", "ER_prepare")
    /\ LET r == PrepareAudioReadyState(Cur, site)
       IN  Return("recv", r.n, r.evs)

\* an OnError that reports the error twice
OnError_Fire_Twice ==
    /\ At("recv", "ER_fire")
    /\ Return("recv", Cur, << Cb("error"), Cb("error") >>)

OnError_Fire ==
    /\ At("recv", "ER_fire")
    /\ Return("recv", Cur, << Cb("error") >>)

OnUserMessage_Lock(path) ==
    /\ Alive /\ pc["recv"] = "idle" /\ obs.connected
    /\ Issued(IF path = "response" THEN "user_message_response" ELSE "user_message_other")
    /\ IF path = "response"
       THEN /\ m_stateMutex = "free"
            /\ IF m_uspState = "WaitingForIntent"
               THEN Commit("recv", Cur, "UM_complete", [Enter EXCEPT !.luisJson = LuisJson],
                           << >>)
               ELSE Return("recv", Cur, << >>)
       ELSE Return("recv", Cur, << >>)

OnUserMessage_Complete ==
    /\ At("recv", "UM_complete")
    /\ LET r == FireFinalResultLater_WaitingForIntentComplete(Cur, loc["recv"].luisJson)
       IN  Return("recv", r.n, r.evs)

-----------------------------------------------------------------------------
(* The adapter *)

Init ==
    /\ m_audioState = "Idle"
    /\ m_uspState = "Idle"
    /\ m_handle = FALSE
    /\ m_format = NoFormat
    /\ m_singleShot = FALSE
    /\ m_recoMode = "Interactive"
    /\ m_expectIntentResponse = FALSE
    /\ m_servicePreferedBufferSizeSendingNow = 0
    /\ chunk = NullChunk
    /\ m_finalResultMessageToFireLater = EmptyMsg
    /\ m_stateMutex = "free"
    /\ pc = [t \in Threads |-> "idle"]
    /\ loc = [t \in Threads |-> NoLocals]
    /\ site \in Sites
    /\ obs = InitObs
    /\ probe = [called |-> FALSE]
    /\ stimulus = [oneAtATime |-> FALSE]

Next ==
    \/ Term_Lock
    \/ Term_Reset
    \/ Term_Zombie
    \/ \E singleShot \in BOOLEAN : SetAdapterMode(singleShot)
    \/ \E pformat \in Formats \cup {NoFormat} : SetFormat_Lock(pformat)
    \/ SetFormat_Stop
    \/ SetFormat_Reset
    \/ \E size \in 0..MaxAudioLen : ProcessAudio_Lock(size)
    \/ ProcessAudio_Context
    \/ ProcessAudio_ContextSend
    \/ ProcessAudio_Format
    \/ ProcessAudio_Write
    \/ ProcessAudio_StartingTurn
    \/ ProcessAudio_Flush
    \/ OnSpeechStartDetected_Lock
    \/ OnSpeechStartDetected_Fire
    \/ OnSpeechEndDetected_Lock
    \/ OnSpeechEndDetected_Fire
    \/ OnSpeechEndDetected_Flush
    \/ OnSpeechEndDetected_RequestIdle
    \/ OnSpeechHypothesis_Lock
    \/ OnSpeechHypothesis_Fire
    \/ OnSpeechFragment_Lock
    \/ OnSpeechFragment_Complete
    \/ OnSpeechFragment_Relock
    \/ OnSpeechFragment_Fire
    \/ \E message \in PhraseMsgs : OnSpeechPhrase_Lock(message)
    \/ OnSpeechPhrase_Later
    \/ OnSpeechPhrase_Now
    \/ OnTranslationHypothesis_Lock
    \/ OnTranslationHypothesis_Fire
    \/ OnTranslationPhrase_Lock
    \/ OnTranslationPhrase_Fire
    \/ OnTranslationSynthesis
    \/ OnTurnStart_Lock
    \/ OnTurnStart_Fire
    \/ OnTurnEnd_Lock
    \/ OnTurnEnd_Complete
    \/ OnTurnEnd_Relock
    \/ OnTurnEnd_Stopped
    \/ OnTurnEnd_Flush
    \/ OnTurnEnd_RequestIdle
    \/ OnError_Lock
    \/ OnError_FireThenReset
    \/ OnError_Reset
    \/ OnError_Prepare
    \/ OnError_Fire
    \/ \E path \in {"response", "other"} : OnUserMessage_Lock(path)
    \/ OnUserMessage_Complete

Spec == Init /\ [][Next]_vars

-----------------------------------------------------------------------------
(* ChangeState on its own: any pair, any arguments *)

InitChangeState ==
    /\ m_audioState \in AudioStates
    /\ m_uspState \in UspStates
    /\ m_handle = FALSE
    /\ m_format = NoFormat
    /\ m_singleShot = FALSE
    /\ m_recoMode = "Interactive"
    /\ m_expectIntentResponse = FALSE
    /\ m_servicePreferedBufferSizeSendingNow = 0
    /\ chunk = NullChunk
    /\ m_finalResultMessageToFireLater = EmptyMsg
    /\ m_stateMutex = "free"
    /\ pc = [t \in Threads |-> "idle"]
    /\ loc = [t \in Threads |-> NoLocals]
    /\ site \in {CHOOSE s \in Sites : TRUE}
    /\ obs = InitObs
    /\ probe = [called |-> FALSE]
    /\ stimulus = [oneAtATime |-> FALSE]

\* one call of ChangeState with the given arguments on the initial pair
CallChangeState(fromAudioState, fromUspState, toAudioState, toUspState) ==
    /\ ~probe.called
    /\ LET r == ChangeState(Pair, fromAudioState, fromUspState, toAudioState, toUspState)
       IN  /\ m_audioState' = r.st.a
           /\ m_uspState' = r.st.u
           /\ probe' = [called |-> TRUE, pre |-> Pair,
                        from |-> [a |-> fromAudioState, u |-> fromUspState],
                        to |-> [a |-> toAudioState, u |-> toUspState], ret |-> r.ok]
    /\ UNCHANGED << m_handle, m_format, m_singleShot, m_recoMode, m_expectIntentResponse,
                    m_servicePreferedBufferSizeSendingNow, chunk,
                    m_finalResultMessageToFireLater, m_stateMutex, pc, loc, site, obs,
                    stimulus >>

NextChangeState ==
    \E fa \in AudioStates, fu \in UspStates, ta \in AudioStates, tu \in UspStates :
        CallChangeState(fa, fu, ta, tu)

SpecChangeState == InitChangeState /\ [][NextChangeState]_vars

-----------------------------------------------------------------------------
(* The chunking uploader on its own: writes and flushes on an open session *)

InitUpload ==
    /\ m_audioState = "Sending"
    /\ m_uspState = "WaitingForPhrase"
    /\ m_handle = TRUE
    /\ m_format = NoFormat
    /\ m_singleShot = FALSE
    /\ m_recoMode = "Interactive"
    /\ m_expectIntentResponse = FALSE
    /\ m_servicePreferedBufferSizeSendingNow \in 1..MaxFrame
    /\ chunk = NullChunk
    /\ m_finalResultMessageToFireLater = EmptyMsg
    /\ m_stateMutex = "free"
    /\ pc = [t \in Threads |-> "idle"]
    /\ loc = [t \in Threads |-> NoLocals]
    /\ site \in {CHOOSE s \in Sites : TRUE}
    /\ obs = InitObs
    /\ probe = [called |-> FALSE, input |-> << >>, frames |-> << >>, flushed |-> FALSE,
                buffered |-> 0, flushCalls |-> << >>]
    /\ stimulus = [oneAtATime |-> FALSE]

\* the bytes of the WriteAudio calls among evs, each marked with whether a flush made it
FramesOf(evs, byFlush) ==
    LET writes == SelectSeq(evs, LAMBDA e : e.name = "write_audio")
    IN  [i \in 1..Len(writes) |-> [bytes |-> writes[i].bytes, byFlush |-> byFlush]]

\* UspWrite of the next len bytes of the stream; every byte of the stream is different
Upload_Write(len) ==
    /\ ~probe.flushed
    /\ Len(probe.input) + len <= MaxInput
    /\ LET buffer == [i \in 1..len |-> AudioBase + Len(probe.input) + i]
           r == UspWrite(chunk, m_servicePreferedBufferSizeSendingNow, Pair, m_handle, buffer)
       IN  /\ chunk' = r.chunk
           /\ probe' = [called |-> TRUE, input |-> probe.input \o buffer,
                        frames |-> probe.frames \o FramesOf(r.evs, FALSE), flushed |-> FALSE,
                        buffered |-> 0, flushCalls |-> << >>]
    /\ UNCHANGED << m_audioState, m_uspState, m_handle, m_format, m_singleShot, m_recoMode,
                    m_expectIntentResponse, m_servicePreferedBufferSizeSendingNow,
                    m_finalResultMessageToFireLater, m_stateMutex, pc, loc, site, obs,
                    stimulus >>

\* UspWrite_Flush, once, at the end of the stream; the record keeps how many bytes were
\* buffered when it was called and the transport calls it made, in order
Upload_Flush ==
    /\ ~probe.flushed
    /\ LET r == UspWrite_Flush(chunk, m_servicePreferedBufferSizeSendingNow, Pair, m_handle)
       IN  /\ chunk' = r.chunk
           /\ probe' = [probe EXCEPT !.called = TRUE,
                                     !.frames = @ \o FramesOf(r.evs, TRUE), !.flushed = TRUE,
                                     !.buffered = BytesBuffered(chunk),
                                     !.flushCalls = [i \in 1..Len(r.evs) |-> r.evs[i].name]]
    /\ UNCHANGED << m_audioState, m_uspState, m_handle, m_format, m_singleShot, m_recoMode,
                    m_expectIntentResponse, m_servicePreferedBufferSizeSendingNow,
                    m_finalResultMessageToFireLater, m_stateMutex, pc, loc, site, obs,
                    stimulus >>

NextUpload ==
    \/ \E len \in 1..MaxWrite : Upload_Write(len)
    \/ Upload_Flush

SpecUpload == InitUpload /\ [][NextUpload]_vars

-----------------------------------------------------------------------------
(* The adapter driven one stimulus at a time: the next operation or event arrives only
   when the handler of the one before has returned *)

NoSnapshot ==
    [a |-> "Idle", u |-> "Idle", later |-> EmptyMsg, expect |-> FALSE,
     recoMode |-> "Interactive", singleShot |-> FALSE, finals |-> 0, format |-> NoFormat,
     handle |-> FALSE, size |-> 0, buffered |-> 0]

InitSeq ==
    /\ m_audioState = "Idle"
    /\ m_uspState = "Idle"
    /\ m_handle = FALSE
    /\ m_format = NoFormat
    /\ m_singleShot = FALSE
    /\ m_recoMode = "Interactive"
    /\ m_expectIntentResponse = FALSE
    /\ m_servicePreferedBufferSizeSendingNow = 0
    /\ chunk = NullChunk
    /\ m_finalResultMessageToFireLater = EmptyMsg
    /\ m_stateMutex = "free"
    /\ pc = [t \in Threads |-> "idle"]
    /\ loc = [t \in Threads |-> NoLocals]
    /\ site \in Sites
    /\ obs = InitObs
    /\ probe = [called |-> FALSE, pre |-> NoSnapshot, fired |-> << >>, calls |-> << >>,
                threw |-> FALSE, turnFinals |-> 0, turnIdles |-> 0, log |-> << >>]
    /\ stimulus = [oneAtATime |-> TRUE, name |-> "", onScript |-> 0]

SpecSeq == InitSeq /\ [][Next]_vars

-----------------------------------------------------------------------------
(* Properties *)

\* C1: a phrase held back for its intent (speech_phrase accepted in WaitingForPhrase with
\* an intent response expected) gets exactly one final_result, on the user_message
\* "response" or on the turn_end, never on both
C1_OneFinalResultPerHeldPhrase == obs.intentFinals <= 1

\* C2: a handler entered once usp_state is Zombie fires no site callback and makes no
\* transport call
C2_NothingAfterZombie == ~obs.zombieAct

\* C3: the transport sees speech.context (when it is not empty), then the header, then
\* audio frames, and no audio frame after a turn_end before the next header; stated here
\* for that last part and the handlers of the service's events: none of them sends an
\* audio frame once the turn_end is in and before the next header
C3_TransportOrder ==
    ~(obs.wireBad.call = "audio" /\ obs.wireBad.phase = "closed" /\ obs.wireBad.by = "recv")

\* C4: a sequence of writes that ends with a flush hands the transport frames whose
\* concatenation is the written bytes in order, and every frame but the flush's has
\* exactly frame_size bytes
C4_ChunkingPreservesStream ==
    probe.flushed =>
        LET Concat[i \in 0..Len(probe.frames)] ==
                IF i = 0 THEN << >> ELSE Concat[i - 1] \o probe.frames[i].bytes
        IN  /\ Concat[Len(probe.frames)] = probe.input
            /\ \A i \in 1..Len(probe.frames) :
                   ~probe.frames[i].byFlush =>
                       Len(probe.frames[i].bytes) = m_servicePreferedBufferSizeSendingNow

\* C5: no site callback is invoked by a thread that holds m_stateMutex
C5_NoCallbackUnderLock == ~obs.cbLocked

\* C6: no transport call is made by a thread that holds m_stateMutex
C6_NoTransportUnderLock == ~obs.txLocked

\* C7: a service event or an ingress operation other than Term that is entered with
\* usp_state in Error, Terminating or Zombie leaves audio_state and usp_state as they are;
\* stated here for the service's events: the first step of a handler on the receive
\* thread, the one that holds the lock, changes neither
C7_BadStateDropsStimulus ==
    [][(/\ IsBadState(Pair)
        /\ pc["recv"] = "idle"
        /\ pc'["ctl"] = pc["ctl"] /\ pc'["audio"] = pc["audio"])
       => (m_audioState' = m_audioState /\ m_uspState' = m_uspState)]_vars

\* C8: Term sets usp_state to Terminating, then destroys the session, then sets usp_state
\* to Zombie, never touching audio_state; when it returns usp_state is Zombie and there is
\* no session
C8_TermOrder ==
    [][/\ (pc["ctl"] = "idle" /\ pc'["ctl"] = "Term_reset")
            => (m_uspState' = "Terminating" /\ m_audioState' = m_audioState /\
                m_handle' = m_handle)
       /\ (pc["ctl"] = "Term_reset" /\ pc'["ctl"] = "Term_zombie")
            => (~m_handle' /\ m_uspState' = "Terminating" /\ m_audioState' = m_audioState)
       /\ (pc["ctl"] = "Term_zombie" /\ pc'["ctl"] = "idle")
            => (m_uspState' = "Zombie" /\ m_audioState' = m_audioState /\ ~m_handle')]_vars

\* C9: usp_state never leaves Zombie, leaves Terminating only for Zombie, and leaves Error
\* only for Terminating
C9_BadStatesOnlyForward ==
    [][/\ m_uspState = "Zombie" => m_uspState' = "Zombie"
       /\ m_uspState = "Terminating" => m_uspState' \in {"Terminating", "Zombie"}
       /\ m_uspState = "Error" => m_uspState' \in {"Error", "Terminating"}]_vars

\* a handler that was entered in Zombie has just called the site, and usp_state is Zombie
C9_Witness == m_uspState = "Zombie" /\ obs.zombieAct /\ pc["ctl"] = "idle"

\* C10: ChangeState returns true and sets the pair to (toAudioState, toUspState) exactly
\* when the pair is (fromAudioState, fromUspState) and fromUspState is none of Error,
\* Zombie, Terminating, or equals toUspState, or the move is Error to Terminating or
\* Terminating to Zombie; otherwise it returns false and the pair stays
C10_ChangeStateIff ==
    probe.called =>
        LET allowed ==
                /\ probe.pre = probe.from
                /\ \/ probe.from.u \notin {"Error", "Zombie", "Terminating"}
                   \/ probe.from.u = probe.to.u
                   \/ (probe.from.u = "Error" /\ probe.to.u = "Terminating")
                   \/ (probe.from.u = "Terminating" /\ probe.to.u = "Zombie")
        IN  /\ probe.ret <=> allowed
            /\ Pair = IF allowed THEN probe.to ELSE probe.pre

\* ChangeState has been refused on a matching pair: a move out of Zombie
C10_Witness ==
    /\ probe.called /\ ~probe.ret
    /\ probe.pre = probe.from /\ probe.from.u = "Zombie" /\ probe.to.u = "Idle"

\* C11: in every reachable state, whatever the interleaving of the site's threads with the
\* receive thread, audio_state = Sending implies that a format is stored and a session is
\* open; the states in and after Term, which destroys the session, are left aside
C11_SendingHasFormatAndSession ==
    (m_audioState = "Sending" /\ m_uspState \notin {"Terminating", "Zombie"})
        => (m_format # NoFormat /\ m_handle)

\* C12: while Term is not running, a session exists exactly when usp_state is none of
\* Idle, Terminating, Zombie
C12_SessionIffBusy ==
    pc["ctl"] = "idle" => (m_handle <=> m_uspState \notin {"Idle", "Terminating", "Zombie"})

\* C13: when usp_state is WaitingForIntent or WaitingForIntent2 and the receive thread is
\* not inside a handler (none is storing or completing the phrase), the slot
\* m_finalResultMessageToFireLater holds the phrase that was held back
C13_HeldPhraseStored ==
    (m_uspState \in {"WaitingForIntent", "WaitingForIntent2"} /\ pc["recv"] = "idle")
        => m_finalResultMessageToFireLater # EmptyMsg

\* C14: SetFormat with a format does not open the session: the step that stores the format
\* leaves m_handle as it was
C14_SetFormatOpensNoSession ==
    [][(m_format' # m_format /\ m_format' # NoFormat) => (m_handle' = m_handle)]_vars

\* C18: a flush while sending hands the transport what lies in the chunk buffer as one
\* audio write of exactly the buffered byte count, releases the buffer, and then calls
\* flush_audio once; the frames before it are full frames, so that frame_size + r bytes
\* written and flushed give writes of frame_size and r bytes (4096 and 904 for 5000)
C18_FlushEmitsBufferedBytes ==
    probe.flushed =>
        LET byFlush == SelectSeq(probe.frames, LAMBDA f : f.byFlush)
            before == SelectSeq(probe.frames, LAMBDA f : ~f.byFlush)
        IN  /\ probe.flushCalls = << "write_audio", "flush_audio" >>
            /\ Len(byFlush) = 1
            /\ Len(byFlush[1].bytes) = probe.buffered
            /\ chunk = NullChunk
            /\ \A i \in 1..Len(before) :
                   Len(before[i].bytes) = m_servicePreferedBufferSizeSendingNow
            /\ Len(before) * m_servicePreferedBufferSizeSendingNow + probe.buffered
                   = Len(probe.input)

\* one write of frame_size + 1 bytes, then the flush: a full frame, then a frame of 1 byte
C18_Witness ==
    /\ probe.flushed
    /\ Len(probe.input) = m_servicePreferedBufferSizeSendingNow + 1
    /\ Len(probe.frames) = 2
    /\ Len(probe.frames[1].bytes) = m_servicePreferedBufferSizeSendingNow
    /\ Len(probe.frames[2].bytes) = 1 /\ probe.frames[2].byFlush
    /\ probe.flushCalls = << "write_audio", "flush_audio" >>

\* C20: started_turn is fired only after the first audio write of the turn has been handed
\* to the uploader: when OnTurnStart calls the site, the ProcessAudio call that started the
\* turn is not still ahead of its UspWrite
C20_StartedTurnAfterFirstAudio ==
    [][(pc["recv"] = "TS_fire" /\ pc'["recv"] = "idle")
       => ~(\/ pc["audio"] \in {"PA_context", "PA_context_send", "PA_format"}
            \/ (pc["audio"] = "PA_write" /\ loc["audio"].first))]_vars

\* the steps of the receive thread that fire a final_result
FinalResultSteps == {"SP_now", "TP_fire", "UM_complete", "FR_complete", "TE_complete"}

\* C19: stopped_turn is fired after every final_result of its turn: once stopped_turn has
\* been fired, no final_result is fired until the service has opened the next turn (a
\* turn_start has been accepted)
C19_NoFinalResultAfterStoppedTurn ==
    [][(pc["recv"] \in FinalResultSteps /\ pc'["recv"] # pc["recv"]) => ~obs.stopped]_vars

\* a turn in which a final_result was held back is over: turn_end has fired the held
\* result and then stopped_turn
C19_Witness ==
    /\ obs.stopped /\ obs.intentFinals >= 1
    /\ pc["recv"] = "idle" /\ m_uspState = "Idle"

\* the callbacks of cbs whose name is in names
Named(cbs, names) == SelectSeq(cbs, LAMBDA c : c.name \in names)

NamesOf(cbs) == [i \in 1..Len(cbs) |-> cbs[i].name]

\* the handler of the stimulus name has run to its end, the stimuli coming one at a time
Handled(name) ==
    /\ stimulus.oneAtATime /\ stimulus.name = name
    /\ \A t \in Threads : pc[t] = "idle"

TurnCallbacks ==
    {"starting_turn", "started_turn", "detected_speech_start", "intermediate_result",
     "final_result", "stopped_turn"}

\* C15: when the stimuli of scenario S1 have been handled one at a time on a site without
\* intent info in interactive mode, the site has received starting_turn, started_turn,
\* detected_speech_start, intermediate_result, final_result and stopped_turn, each exactly
\* once and in this order
C15_S1CallbackOrder ==
    (/\ Handled("turn_end") /\ stimulus.onScript = Len(S1Script)
     /\ site.intent = NoIntent /\ IsInteractiveMode(m_recoMode))
        => NamesOf(Named(probe.log, TurnCallbacks)) =
              << "starting_turn", "started_turn", "detected_speech_start",
                 "intermediate_result", "final_result", "stopped_turn" >>

C15_Witness ==
    /\ Handled("turn_end") /\ stimulus.onScript = Len(S1Script)
    /\ site.intent = NoIntent /\ IsInteractiveMode(m_recoMode) /\ m_singleShot
    /\ Len(Named(probe.log, TurnCallbacks)) = 6
    /\ probe.fired[1].name = "stopped_turn"

\* the handler was entered with the intent response expected and the phrase held, no
\* user_message(response) having fired it since
HeldOnEntry ==
    /\ probe.pre.u = "WaitingForIntent" /\ probe.pre.expect /\ probe.pre.finals = 0

\* C16: when turn_end is handled with the intent response expected and the phrase held
\* (usp state WaitingForIntent, no user_message(response) since), the handler fires
\* exactly one final_result, built from the held phrase and without LUIS payload, then
\* stopped_turn; afterwards the usp state is Idle and the slot of the held phrase is empty
C16_IntentTimeout ==
    (Handled("turn_end") /\ HeldOnEntry)
        => /\ probe.pre.later.recognitionStatus = "Success"
           /\ Named(probe.fired, {"final_result", "stopped_turn"}) =
                << [name |-> "final_result", text |-> probe.pre.later.displayText,
                    luis |-> ""],
                   [name |-> "stopped_turn", text |-> "", luis |-> ""] >>
           /\ m_uspState = "Idle"
           /\ m_finalResultMessageToFireLater = EmptyMsg

C16_Witness ==
    /\ Handled("turn_end") /\ HeldOnEntry
    /\ probe.pre.later.displayText = "one"
    /\ Len(Named(probe.fired, {"final_result"})) = 1
    /\ m_uspState = "Idle"

\* the adapter was in continuous mode without intent info when the handler was entered
Continuous ==
    /\ site.intent = NoIntent /\ ~probe.pre.expect
    /\ probe.pre.recoMode = "Conversation" /\ ~probe.pre.singleShot

\* C17: in continuous mode without intent info, a speech_phrase handled in WaitingForPhrase
\* fires one final_result and leaves the usp state WaitingForPhrase; a turn_end handled
\* there while audio is being sent fires stopped_turn and no final_result and leaves the
\* pair (Ready, Idle); and process_audio with data handled in (Ready, Idle) starts a new
\* turn
C17_ContinuousTurn ==
    Continuous =>
        /\ (/\ \/ Handled("speech_phrase_Success")
                \/ Handled("speech_phrase_NoMatch")
             /\ probe.pre.u = "WaitingForPhrase")
               => /\ NamesOf(probe.fired) = << "final_result" >>
                  /\ m_uspState = "WaitingForPhrase"
        /\ (/\ Handled("turn_end")
             /\ probe.pre.a = "Sending" /\ probe.pre.u = "WaitingForPhrase")
               => /\ NamesOf(Named(probe.fired, {"final_result", "stopped_turn"}))
                        = << "stopped_turn" >>
                  /\ m_audioState = "Ready" /\ m_uspState = "Idle"
        /\ (/\ Handled("process_audio")
             /\ probe.pre.a = "Ready" /\ probe.pre.u = "Idle")
               => /\ NamesOf(Named(probe.fired, TurnCallbacks)) = << "starting_turn" >>
                  /\ m_audioState = "Sending" /\ m_uspState = "WaitingForTurnStart"

\* a second turn is started after a first one was stopped
C17_Witness ==
    /\ Continuous /\ Handled("process_audio")
    /\ probe.pre.a = "Ready" /\ probe.pre.u = "Idle" /\ obs.stopped
    /\ NamesOf(Named(probe.fired, TurnCallbacks)) = << "starting_turn" >>
    /\ m_audioState = "Sending" /\ m_uspState = "WaitingForTurnStart"

\* C21: when turn_end has been handled and has stopped the turn, the chunking buffer holds
\* no bytes that have not been written to the transport
C21_NoAudioAcrossTurns ==
    (Handled("turn_end") /\ Len(Named(probe.fired, {"stopped_turn"})) = 1)
        => BytesBuffered(chunk) = 0

\* C22: the chunking buffer is changed only by steps of the audio thread, never by a step
\* of a service-event handler on the receive thread
C22_OnlyAudioThreadTouchesBuffer ==
    [][chunk' # chunk => pc'["recv"] = pc["recv"]]_vars

\* the pair when the handler was entered
PrePair == [a |-> probe.pre.a, u |-> probe.pre.u]

\* C23: an error event handled in a non-bad state, when the reset path does not apply,
\* moves the usp state to Error, leaves the audio state and fires error once; and an
\* operation or event other than term that is handled in usp state Error leaves the usp
\* state Error and fires no error
C23_ErrorIsFinal ==
    /\ (/\ Handled("error") /\ ~IsBadState(PrePair)
        /\ ~ShouldResetAfterError(site, probe.pre.format))
          => /\ m_uspState = "Error" /\ m_audioState = probe.pre.a
             /\ NamesOf(probe.fired) = << "error" >>
    /\ (/\ stimulus.oneAtATime /\ stimulus.name \notin {"", "term"}
        /\ \A t \in Threads : pc[t] = "idle"
        /\ probe.pre.u = "Error")
          => /\ m_uspState = "Error"
             /\ Named(probe.fired, {"error"}) = << >>

\* an error event has been dropped after an earlier one was reported
C23_Witness ==
    /\ Handled("error") /\ probe.pre.u = "Error" /\ ~ShouldResetAfterError(site, m_format)
    /\ m_uspState = "Error" /\ probe.fired = << >>

\* the error event was handled in a non-bad state with the reset path applying
ResetOnEntry ==
    /\ Handled("error") /\ ~IsBadState(PrePair)
    /\ ShouldResetAfterError(site, probe.pre.format)

\* C24: an error event handled in a non-bad state with reset-after-error set and a format
\* stored fires error once, leaves the pair (Ready, Idle) and drops the session, which is
\* not opened again before the next audio
C24_ResetReopensLazily ==
    ResetOnEntry =>
        /\ NamesOf(probe.fired) = << "error" >>
        /\ m_audioState = "Ready" /\ m_uspState = "Idle"
        /\ ~m_handle

\* set_format(null) has stopped the audio: the audio state is Idle, the usp state is the
\* one found on entry, completed_set_format_stop was fired once and no format is stored
FormatStopped ==
    /\ m_audioState = "Idle" /\ m_uspState = probe.pre.u
    /\ NamesOf(probe.fired) = << "completed_set_format_stop" >>
    /\ m_format = NoFormat

EndDetectedExpected ==
    /\ IsStateBetweenIncluding(PrePair, "WaitingForPhrase", "WaitingForTurnEnd")
    /\ probe.pre.a \in {"Idle", "Sending", "Stopping"}

TurnEndExpected ==
    \/ IsInteractiveMode(probe.pre.recoMode) /\ probe.pre.u = "WaitingForTurnEnd"
    \/ ~IsInteractiveMode(probe.pre.recoMode) /\ probe.pre.u = "WaitingForPhrase"
    \/ probe.pre.u = "WaitingForIntent"

\* C26: a speech_end_detected or turn_end handled in a non-bad state pair that does not
\* match the handler's precondition changes neither state and fires no callback
C26_UnmatchedStimulusDropped ==
    (/\ ~IsBadState(PrePair)
     /\ \/ Handled("speech_end_detected") /\ ~EndDetectedExpected
        \/ Handled("turn_end") /\ ~TurnEndExpected)
        => /\ m_audioState = probe.pre.a /\ m_uspState = probe.pre.u
           /\ probe.fired = << >>

RECURSIVE SumLen(_)
\* the number of bytes handed to the calls of a sequence
SumLen(calls) == IF calls = << >> THEN 0 ELSE Head(calls).len + SumLen(Tail(calls))

\* the audio bytes the handler has taken: those it wrote to the transport and those it
\* added to the chunk buffer
BytesTaken ==
    SumLen(Named(probe.calls, {"write_audio"})) + BytesBuffered(chunk) - probe.pre.buffered

PairUnchanged == m_audioState = probe.pre.a /\ m_uspState = probe.pre.u

\* C27: process_audio with data handled in (Ready, Idle) leaves (Sending,
\* WaitingForTurnStart), writes the header and the data and then fires starting_turn, its
\* only callback; handled in audio state Sending it leaves the pair, fires nothing and
\* writes the data, or with no data flushes the buffer; handled in any other non-bad
\* state it changes no state, calls neither the transport nor the site
C27_ProcessAudioDispatch ==
    (/\ Handled("process_audio") \/ Handled("process_audio_0")
     /\ ~IsBadState(PrePair))
        => IF Handled("process_audio") /\ probe.pre.a = "Ready" /\ probe.pre.u = "Idle"
           THEN /\ m_audioState = "Sending" /\ m_uspState = "WaitingForTurnStart"
                /\ NamesOf(probe.fired) = << "starting_turn" >>
                /\ probe.calls[Len(probe.calls)].name = "starting_turn"
                /\ BytesTaken - Len(UspWriteFormat(m_format)) \in 1..MaxAudioLen
           ELSE IF Handled("process_audio") /\ probe.pre.a = "Sending"
           THEN /\ PairUnchanged
                /\ probe.fired = << >>
                /\ Named(probe.calls, {"write_audio"}) = probe.calls
                /\ BytesTaken \in 1..MaxAudioLen
           ELSE IF probe.pre.a = "Sending"
           THEN /\ PairUnchanged
                /\ NamesOf(probe.calls) = << "write_audio", "flush_audio" >>
                /\ probe.calls[1].len = probe.pre.buffered
                /\ chunk = NullChunk
           ELSE /\ PairUnchanged
                /\ probe.calls = << >>
                /\ BytesBuffered(chunk) = probe.pre.buffered

\* a frame is completed by a write in mid-turn
C27_Witness ==
    /\ Handled("process_audio") /\ probe.pre.a = "Sending" /\ probe.pre.buffered > 0
    /\ NamesOf(probe.calls) = << "write_audio" >>
    /\ BytesBuffered(chunk) = 0

\* the speech.phrase message of the stimulus being handled
PhraseHandled ==
    CHOOSE m \in PhraseMsgs :
        stimulus.name = IF m.recognitionStatus = "Success" THEN "speech_phrase_Success"
                        ELSE "speech_phrase_NoMatch"

\* C28: a speech_phrase handled in WaitingForPhrase is stored, fires nothing and leaves
\* WaitingForIntent when an intent response is expected and its status is Success;
\* otherwise it fires one final_result with the phrase and no LUIS payload and leaves
\* WaitingForTurnEnd in interactive mode, WaitingForPhrase in continuous mode.  Handled in
\* any other usp state it fires nothing and changes nothing.  In interactive mode without
\* an intent response expected at most one final_result is fired per turn
C28_SpeechPhraseDispatch ==
    /\ (stimulus.oneAtATime /\ IsInteractiveMode(m_recoMode) /\ site.intent = NoIntent)
          => probe.turnFinals <= 1
    /\ (Handled("speech_phrase_Success") \/ Handled("speech_phrase_NoMatch"))
        => IF probe.pre.u # "WaitingForPhrase"
           THEN /\ PairUnchanged
                /\ probe.calls = << >>
                /\ m_finalResultMessageToFireLater = probe.pre.later
           ELSE IF probe.pre.expect /\ PhraseHandled.recognitionStatus = "Success"
           THEN /\ m_audioState = probe.pre.a /\ m_uspState = "WaitingForIntent"
                /\ probe.calls = << >>
                /\ m_finalResultMessageToFireLater = PhraseHandled
           ELSE /\ m_audioState = probe.pre.a
                /\ m_uspState = IF IsInteractiveMode(probe.pre.recoMode)
                                THEN "WaitingForTurnEnd" ELSE "WaitingForPhrase"
                /\ probe.fired = << [name |-> "final_result",
                                     text |-> PhraseHandled.displayText, luis |-> ""] >>
                /\ m_finalResultMessageToFireLater = probe.pre.later

\* a phrase without success is fired at once although an intent response is expected
C28_Witness ==
    /\ Handled("speech_phrase_NoMatch")
    /\ probe.pre.u = "WaitingForPhrase" /\ probe.pre.expect
    /\ NamesOf(probe.fired) = << "final_result" >>

C30_SpeechEndDetected ==
    Handled("speech_end_detected") =>
        LET stopping == probe.pre.singleShot /\ probe.pre.a = "Sending"
        IN  /\ m_uspState = probe.pre.u
            /\ m_audioState = IF stopping THEN "Stopping" ELSE probe.pre.a
            /\ NamesOf(Named(probe.calls, {"detected_speech_end", "flush_audio",
                                           "requesting_audio_idle"}))
                 = (IF ~IsBadState(PrePair) /\ EndDetectedExpected
                    THEN << "detected_speech_end" >> ELSE << >>)
                   \o (IF SessionUsable(PrePair, probe.pre.handle)
                       THEN << "flush_audio" >> ELSE << >>)
                   \o (IF stopping /\ ~IsBadState(PrePair)
                       THEN << "requesting_audio_idle" >> ELSE << >>)

\* the event is not accepted and the audio is flushed all the same
C30_Witness ==
    /\ Handled("speech_end_detected")
    /\ ~IsBadState(PrePair) /\ ~EndDetectedExpected
    /\ probe.pre.buffered > 0 /\ BytesBuffered(chunk) = 0
    /\ NamesOf(probe.calls) = << "write_audio", "flush_audio" >>

-----------------------------------------------------------------------------
(* The speech.context builder on its own: any intent info, listen-for list and switches *)

\* the intent infos and listen-for lists the builder is run with
IntentInfos ==
    [provider : {"", "LUIS"}, id : {"", "app"}, key : {"", "k1"}]

ListenForLists ==
    { << >>,
      << << >> >>,
      << << "p", "l", "a", "y" >> >>,
      << << "{", "g", ":", "1", "}" >> >>,
      << << "p", "l", "a", "y" >>, << "{", "g", ":", "1", "}" >> >> }

ContextSites ==
    { MakeSite([NoProperties EXCEPT !.subscription_key = "sk"], l, i, noDGI, noIntentJson, FALSE) :
        l \in ListenForLists, i \in IntentInfos, noDGI \in BOOLEAN, noIntentJson \in BOOLEAN }

\* the adapter where SendPreAudioMessages finds it: a turn just started, the lock released,
\* m_expectIntentResponse as an earlier turn left it; or terminated in between
InitContext ==
    /\ m_audioState = "Sending"
    /\ m_uspState \in {"WaitingForTurnStart", "Zombie"}
    /\ m_handle = (m_uspState # "Zombie")
    /\ m_format = NoFormat
    /\ m_singleShot = FALSE
    /\ m_recoMode = "Interactive"
    /\ m_expectIntentResponse \in BOOLEAN
    /\ m_servicePreferedBufferSizeSendingNow = 0
    /\ chunk = NullChunk
    /\ m_finalResultMessageToFireLater = EmptyMsg
    /\ m_stateMutex = "free"
    /\ pc = [t \in Threads |-> "idle"]
    /\ loc = [t \in Threads |-> NoLocals]
    /\ site \in ContextSites
    /\ obs = InitObs
    /\ probe = [called |-> FALSE, expected |-> FALSE, sent |-> << >>]
    /\ stimulus = [oneAtATime |-> FALSE]

\* one call of UspSendSpeechContext; the record keeps m_expectIntentResponse as it was
\* and the send_message calls made, each with its buffer
Context_Send ==
    /\ ~probe.called
    /\ LET r == UspSendSpeechContext(site, Pair, m_handle)
       IN  /\ m_expectIntentResponse' = r.expectIntentResponse
           /\ probe' = [called |-> TRUE, expected |-> m_expectIntentResponse,
                        sent |-> [i \in 1..Len(r.evs) |-> r.evs[i].bytes]]
    /\ UNCHANGED << m_audioState, m_uspState, m_handle, m_format, m_singleShot, m_recoMode,
                    m_servicePreferedBufferSizeSendingNow, chunk,
                    m_finalResultMessageToFireLater, m_stateMutex, pc, loc, site, obs,
                    stimulus >>

NextContext == Context_Send

SpecContext == InitContext /\ [][NextContext]_vars

\* whether one of the buffers sent holds the branch that opens with the given key
BranchSent(sent, key) ==
    \E i \in 1..Len(sent) : \E j \in 1..Len(sent[i]) : sent[i][j] = key

\* C31: when UspSendSpeechContext has run on a usable session, the message it sent holds
\* the intent branch exactly when provider, id and key are all non-empty and the
\* no-intent-json switch is off, and the dgi branch exactly when the listen-for list is
\* not empty and the no-dgi switch is off; at most one message is sent and none when both
\* branches are missing; and, usable session or not, m_expectIntentResponse is then
\* exactly whether the intent branch was built, whatever it was before
C31_ContextBranches ==
    probe.called =>
        LET intent == site.intent.provider # "" /\ site.intent.id # "" /\ site.intent.key # "" /\
                      ~site.noIntentJson
            dgi == site.listenFor # << >> /\ ~site.noDGI
        IN  /\ m_expectIntentResponse = intent
            /\ Len(probe.sent) <= 1
            /\ ~intent /\ ~dgi => probe.sent = << >>
            /\ SessionUsable(Pair, m_handle) =>
                   /\ BranchSent(probe.sent, "\"intent\":") = intent
                   /\ BranchSent(probe.sent, "\"dgi\":") = dgi

C31_Witness ==
    /\ probe.called
    /\ ~probe.expected
    /\ m_expectIntentResponse
    /\ site.listenFor # << >>
    /\ BranchSent(probe.sent, "\"intent\":")
    /\ BranchSent(probe.sent, "\"dgi\":")

-----------------------------------------------------------------------------
(* The endpoint selection on its own: any combination of the properties it reads *)

\* the values of the properties SetUspEndpoint reads
EndpointProperties ==
    { [NoProperties EXCEPT !.subscription_key = "sk", !.endpoint = e, !.from_language = f,
                           !.to_languages = t, !.model_id = m, !.has_reco_language = l[1],
                           !.reco_language = l[2]] :
        e \in {"", "CORTANA", "Cortana", "wss://host"}, f \in {"", "en"}, t \in {"", "de"},
        m \in {"", "m1"}, l \in {<< FALSE, "" >>, << TRUE, "" >>, << TRUE, "en-US" >>} }

InitEndpoint ==
    /\ m_audioState = "Ready"
    /\ m_uspState = "Idle"
    /\ m_handle = FALSE
    /\ m_format = NoFormat
    /\ m_singleShot = FALSE
    /\ m_recoMode = "Interactive"
    /\ m_expectIntentResponse = FALSE
    /\ m_servicePreferedBufferSizeSendingNow = 0
    /\ chunk = NullChunk
    /\ m_finalResultMessageToFireLater = EmptyMsg
    /\ m_stateMutex = "free"
    /\ pc = [t \in Threads |-> "idle"]
    /\ loc = [t \in Threads |-> NoLocals]
    /\ site \in { MakeSite(p, << >>, NoIntent, FALSE, FALSE, FALSE) : p \in EndpointProperties }
    /\ obs = InitObs
    /\ probe = [called |-> FALSE, ret |-> Selected(FALSE, NewClient)]
    /\ stimulus = [oneAtATime |-> FALSE]

\* one call of SetUspEndpoint on a new client
Endpoint_Set ==
    /\ ~probe.called
    /\ probe' = [called |-> TRUE, ret |-> SetUspEndpoint(site.props)]
    /\ UNCHANGED << m_audioState, m_uspState, m_handle, m_format, m_singleShot, m_recoMode,
                    m_expectIntentResponse, m_servicePreferedBufferSizeSendingNow, chunk,
                    m_finalResultMessageToFireLater, m_stateMutex, pc, loc, site, obs,
                    stimulus >>

NextEndpoint == Endpoint_Set

SpecEndpoint == InitEndpoint /\ [][NextEndpoint]_vars

\* the spellings of CORTANA the selection is tried with
CortanaSpellings == {"CORTANA", "Cortana"}

\* C32: SetUspEndpoint takes the first of these that applies: endpoint equal to CORTANA
\* whatever the case, the cortana-sdk endpoint; endpoint not empty, that URL; a translation
\* source language, the translation endpoint with source, targets, voice and model id, or
\* the invalid-argument failure when there are no targets; a model id, the custom-model
\* endpoint with that id; a recognition language present, the default speech endpoint with
\* that language; nothing of these, the default speech endpoint with no language.
\* m_customEndpoint is true exactly in the second case.
C32_EndpointFirstMatch ==
    probe.called =>
        LET p == site.props
            r == probe.ret
            cortana == p.endpoint \in CortanaSpellings
            url == ~cortana /\ p.endpoint # ""
            translation == p.endpoint = "" /\ p.from_language # ""
            model == p.endpoint = "" /\ p.from_language = "" /\ p.model_id # ""
            default == p.endpoint = "" /\ p.from_language = "" /\ p.model_id = ""
        IN  /\ cortana => r.ok /\ r.client = [NewClient EXCEPT !.type = "CDSDK"]
            /\ url => r.ok /\ r.client = [NewClient EXCEPT !.type = "Url", !.url = p.endpoint]
            /\ translation /\ p.to_languages = "" => ~r.ok /\ r.hr = "SPXERR_INVALID_ARG"
            /\ translation /\ p.to_languages # "" =>
                   /\ r.ok
                   /\ r.client = [NewClient EXCEPT !.type = "Translation",
                                                   !.source = p.from_language,
                                                   !.targets = p.to_languages,
                                                   !.voice = p.voice, !.modelId = p.model_id]
            /\ model => r.ok /\ r.client = [NewClient EXCEPT !.type = "Cris",
                                                             !.modelId = p.model_id]
            /\ default /\ p.has_reco_language =>
                   r.ok /\ r.client = [NewClient EXCEPT !.language = << p.reco_language >>]
            /\ default /\ ~p.has_reco_language => r.ok /\ r.client = NewClient
            /\ r.customEndpoint = url

\* a translation source together with a model id and a recognition language: the
\* translation endpoint is taken
C32_Witness ==
    /\ probe.called
    /\ site.props.endpoint = ""
    /\ site.props.from_language # "" /\ site.props.to_languages # ""
    /\ site.props.model_id # "" /\ site.props.has_reco_language
    /\ probe.ret.client.type = "Translation"

-----------------------------------------------------------------------------
(* The adapter driven one stimulus at a time on sites whose session may fail to open *)

\* sites on which UspInitialize throws: no authentication property, an unknown reco-mode
\* value, a translation source without targets, no property service
FailingSites ==
    { MakeSite(NoProperties, << >>, NoIntent, FALSE, FALSE, FALSE),
      MakeSite([NoProperties EXCEPT !.subscription_key = "sk", !.reco_mode = "Bogus"],
               << >>, NoIntent, FALSE, FALSE, FALSE),
      MakeSite([NoProperties EXCEPT !.subscription_key = "sk", !.from_language = "en"],
               << >>, NoIntent, FALSE, FALSE, FALSE),
      MakeSite([NoProperties EXCEPT !.available = FALSE],
               << >>, NoIntent, FALSE, FALSE, FALSE) }

InitConfig ==
    /\ m_audioState = "Idle"
    /\ m_uspState = "Idle"
    /\ m_handle = FALSE
    /\ m_format = NoFormat
    /\ m_singleShot = FALSE
    /\ m_recoMode = "Interactive"
    /\ m_expectIntentResponse = FALSE
    /\ m_servicePreferedBufferSizeSendingNow = 0
    /\ chunk = NullChunk
    /\ m_finalResultMessageToFireLater = EmptyMsg
    /\ m_stateMutex = "free"
    /\ pc = [t \in Threads |-> "idle"]
    /\ loc = [t \in Threads |-> NoLocals]
    /\ site \in Sites \cup FailingSites
    /\ obs = InitObs
    /\ probe = [called |-> FALSE, pre |-> NoSnapshot, fired |-> << >>, calls |-> << >>,
                threw |-> FALSE, turnFinals |-> 0, turnIdles |-> 0, log |-> << >>]
    /\ stimulus = [oneAtATime |-> TRUE, name |-> "", onScript |-> 0]

SpecConfig == InitConfig /\ [][Next]_vars

\* C33: when SetFormat with a format has thrown because the session could not be opened,
\* the adapter is as before the call: the pair is (Idle, Idle), no format is stored and
\* there is no session; and on such a site audio_state never becomes Sending
C33_FailedSetFormatLeavesIdle ==
    /\ Handled("set_format") /\ probe.threw =>
           /\ m_audioState = "Idle" /\ m_uspState = "Idle"
           /\ m_format = NoFormat
           /\ ~m_handle
    /\ site \in FailingSites => m_audioState # "Sending"

\* C34: no transport call is made through m_handle after another thread (Term, or the
\* reset after an error) has reset it: the test that the session is usable and the call
\* that follows it are not separated by the reset
C34_NoCallThroughDestroyedSession == ~obs.staleUse

\* the usp states of a turn that has started and has not ended
TurnStates ==
    {"WaitingForTurnStart", "WaitingForPhrase", "WaitingForIntent", "WaitingForTurnEnd"}

C36_OneIdleRequestPerTurn ==
    /\ probe.turnIdles <= 1
    /\ (/\ stimulus.oneAtATime
        /\ \A t \in Threads : pc[t] = "idle"
        /\ Named(probe.fired, {"requesting_audio_idle"}) # << >>)
           => /\ probe.pre.singleShot /\ m_singleShot
              /\ probe.pre.a = "Sending"
              /\ stimulus.name \in {"speech_end_detected", "turn_end"}

\* speech_end_detected has asked for audio idle, and the turn_end of the same single-shot
\* turn has been handled and has ended the turn without asking again
C36_Witness ==
    /\ Handled("turn_end") /\ TurnEndExpected
    /\ probe.pre.singleShot /\ probe.pre.a = "Stopping"
    /\ probe.turnIdles = 1
    /\ NamesOf(probe.fired) = << "stopped_turn" >>

\* C37: starting_turn is fired before started_turn of the same turn: when OnTurnStart
\* calls the site, the ProcessAudio call that started the turn has already fired
\* starting_turn, that is, it is not still sending the pre-audio messages or the first
\* audio, or about to call the site
C37_StartingTurnBeforeStartedTurn ==
    [][(pc["recv"] = "TS_fire" /\ pc'["recv"] = "idle")
       => ~(\/ pc["audio"] \in {"PA_context", "PA_context_send", "PA_format", "PA_starting"}
            \/ (pc["audio"] = "PA_write" /\ loc["audio"].first))]_vars

=============================================================================
